---- MODULE Spec2Model ----
(***************************************************************************)
(* Model of the AI-orchestration layer of taskeasy:                        *)
(*   - the retry executor  retry()            (services/geminiService.ts)  *)
(*   - the SiliconFlow adapter callSiliconFlow and the Gemini client       *)
(*   - the entry points generateAssessmentQuestions, analyzeTaskWithGemini *)
(*     and testAIConnection                                                *)
(*   - the batch wizard handlers of App        (handleBatchInputSubmit,    *)
(*     handleBatchAnswerSubmit)                                            *)
(*   - the single-task wizard handlers of App  (startNewTask,              *)
(*     handleTaskInputSubmit, handleAnswerSubmit, handleSaveTask) and      *)
(*     getLocalizedContent                                                 *)
(* Every await of the code is a step boundary: one action is the code that *)
(* runs between two awaits.                                                *)
(***************************************************************************)
EXTENDS Integers, Sequences, FiniteSets, TLC

\* ------------------------------------------------------------------ bounds
\* Largest number of task lines typed into the batch textarea.
MaxBatchLines == 21
\* Batches of at most this many tasks get every question map the provider may
\* send and are answered by the user; larger batches get three questions per
\* task and are left unanswered.
MaxAnsweredTasks == 2
\* Largest number of batch AI calls of each kind made in one run.
MaxBatchCalls == 1
\* Largest `retries` argument a caller passes to retry().
MaxRetries == 3
\* Number of distinct task names typed into the single-task wizard.
MaxTaskNames == 2
\* Largest number of AI calls the single-task wizard makes in one run.
MaxWizardCalls == 2
\* Largest number of questions in a list the provider sends.
MaxQuestions == 3
\* Largest number of deletions, edits and completion toggles in one run.
MaxTaskOps == 2
\* Number of retry() calls running at once.
MaxConcurrentCalls == 2

\* --------------------------------------------------------------- constants
\* retry(fn, retries = 3, baseDelay = 1000)
DefaultRetries == 3
DefaultBaseDelay == 1000
\* if (lines.length > 20)
BatchSizeLimit == 20

\* --------------------------------------------------------------- variables
VARIABLES
    \* ---- retry(): its parameters, locals and position
    retries,      \* parameter `retries`
    baseDelay,    \* parameter `baseDelay`
    i,            \* loop counter
    rpc,          \* "idle" | "awaitFn" | "sleeping" | "returned" | "thrown"
    lastError,    \* local `lastError` (NoError = undefined)
    retResult,    \* value retry() resolved with
    retThrown,    \* value retry() rejected with
    \* ---- observation of one retry() call
    calls,        \* number of invocations of fn
    sleeps,       \* delays passed to setTimeout, in order
    history,      \* outcome of every settled invocation of fn, in order
    \* ---- one orchestration call: entry point and provider adapter
    settings,     \* the UserSettings the call reads
    op,           \* "retry" (bare retry(fn)) | "questions" | "analyze" | "test"
    epc,          \* entry point: "idle" | "awaitRetry" | "awaitAdapter" | "returned" | "thrown"
    fpc,          \* adapter call: "none" | "pending" | "noKey" | "fetching"
    httpRequests, \* number of fetch() calls to SILICONFLOW_API_URL
    sdkRequests,  \* number of ai.models.generateContent() calls
    epResult,     \* value the entry point resolved with
    epError,      \* value the entry point rejected with
    adapterLog,   \* how every settled adapter call ended, in order
    \* ---- batch wizard (App state and component state)
    batchRawInput,     \* textarea: its lines (0 = a blank line, k > 0 = the name "task k")
    isLoading,         \* isLoading
    error,             \* state.error
    batchWizardStep,   \* state.batchWizardStep
    batchInputs,       \* state.batchInputs
    batchQuestions,    \* state.batchQuestions: task id -> questions
    batchAnswers,      \* state.batchAnswers: task id -> question index -> yes/no
    batchResults,      \* state.batchResults
    pendingGen,        \* the generateBatchAssessmentQuestions call in flight
    pendingAnalyze,    \* the analyzeBatchTasks call in flight
    genBatchCalls,     \* number of generateBatchAssessmentQuestions calls made
    analyzeBatchCalls, \* number of analyzeBatchTasks calls made
    \* ---- single-task wizard (App state and component state)
    view,              \* state.view
    wizardStep,        \* state.wizardStep
    inputName,         \* inputName (0 = blank, k > 0 = the name "task k")
    currentTaskInput,  \* state.currentTaskInput (0 = null, k > 0 = task k)
    currentQuestions,  \* state.currentQuestions: [id, text]
    currentAnswers,    \* state.currentAnswers: property key -> yes/no
    currentAnalysis,   \* state.currentAnalysis
    stateTasks,        \* state.tasks
    inflight,          \* the wizard's AI calls in flight (n: the call's number)
    wizardCalls,       \* number of AI calls the wizard made
    \* ---- task list (App state and component state)
    selectedTask,         \* selectedTask: the copy of a task the detail panel shows
    isEditingTask,        \* isEditingTask
    editForm,             \* editForm
    pendingDeletes,       \* the deleteTask calls awaiting the database
    pendingSaves,         \* number of handlers awaiting the database, by handler
    rollbacks,            \* number of times deleteTask restored its snapshot
    isSupabaseConfigured, \* isSupabaseConfigured
    tasksCreated,         \* number of ids crypto.randomUUID() gave to saved tasks
    taskOps,              \* number of deletions, edits and completion toggles made
    \* ---- several retry() calls at once
    concurrent,           \* call -> the parameters, locals and position of its retry()
    \* ---- display of bilingual content
    language,          \* state.language
    displayContent,    \* the content handed to getLocalizedContent
    displayed          \* what getLocalizedContent returned for it

retryVars == <<retries, baseDelay, i, rpc, lastError, retResult, retThrown,
               calls, sleeps, history>>

orchVars == <<settings, op, epc, fpc, httpRequests, sdkRequests, epResult, epError,
              adapterLog>>

batchVars == <<batchRawInput, isLoading, error, batchWizardStep, batchInputs,
               batchQuestions, batchAnswers, batchResults, pendingGen, pendingAnalyze,
               genBatchCalls, analyzeBatchCalls>>

taskVars == <<selectedTask, isEditingTask, editForm, pendingDeletes, pendingSaves,
              rollbacks, isSupabaseConfigured, tasksCreated, taskOps>>

concVars == <<concurrent>>

wizardVars == <<view, wizardStep, inputName, currentTaskInput, currentQuestions,
                currentAnswers, currentAnalysis, stateTasks, taskVars, inflight,
                wizardCalls, language, displayContent, displayed>>

NoCall == [kind |-> "none"]

\* enum QuadrantType
QuadrantType == {"Do", "Plan", "Delegate", "Eliminate"}

\* res.quadrant === QuadrantType.DO || res.quadrant === QuadrantType.PLAN
IsImportantOf(q) == q \in {"Do", "Plan"}

\* res.quadrant === QuadrantType.DO || res.quadrant === QuadrantType.DELEGATE
IsUrgentOf(q) == q \in {"Do", "Delegate"}

\* No task: selectedTask is null, find() found nothing.
NoTask == [id |-> 0]

\* No edit form: editForm is null.
NoForm == [quadrant |-> "null"]

\* The task list of App's initial state: the tasks saved in localStorage
\* (tasks: savedTasks ? JSON.parse(savedTasks) : []), with or without a
\* configured database as db allows.
InitTaskListWith(saved, db) ==
    /\ stateTasks = saved
    /\ selectedTask = NoTask
    /\ isEditingTask = FALSE
    /\ editForm = NoForm
    /\ pendingDeletes = {}
    /\ pendingSaves = [single |-> 0, batch |-> 0, edit |-> 0, toggle |-> 0]
    /\ rollbacks = 0
    /\ isSupabaseConfigured \in db
    /\ tasksCreated = Len(saved)
    /\ taskOps = 0

\* The same with no saved tasks.
InitTaskList(db) == InitTaskListWith(<<>>, db)

\* The single-task wizard part of App's initial state, shown in view v.
InitWizardState(v) ==
    /\ view = v
    /\ wizardStep = "input"
    /\ inputName = 0
    /\ currentTaskInput = 0
    /\ currentQuestions = <<>>
    /\ currentAnswers = <<>>
    /\ currentAnalysis = NoCall
    /\ inflight = {}
    /\ wizardCalls = 0
    /\ language = "zh"
    /\ displayContent = [t |-> "undefined"]
    /\ displayed = NoCall

\* The same, with an empty task list and no configured database.
InitWizardAt(v) ==
    /\ InitWizardState(v)
    /\ InitTaskList({FALSE})

\* The batch part of App's initial state.
InitBatch ==
    /\ batchRawInput = <<>>
    /\ isLoading = FALSE
    /\ error = "null"
    /\ batchWizardStep = "input"
    /\ batchInputs = <<>>
    /\ batchQuestions = <<>>
    /\ batchAnswers = <<>>
    /\ batchResults = <<>>
    /\ pendingGen = NoCall
    /\ pendingAnalyze = NoCall
    /\ genBatchCalls = 0
    /\ analyzeBatchCalls = 0

vars == <<concVars, retryVars, orchVars, batchVars, wizardVars>>

\* ------------------------------------------------------------------ errors
\* A thrown value: the three places retry() looks for a status, and the
\* message as a sequence of words.  0 and <<>> are the falsy (absent) values.
NoError == [kind |-> "none"]

Err(s, rs, c, m) ==
    [kind |-> "error", status |-> s, rstatus |-> rs, code |-> c, message |-> m]

NoMessage == <<>>
PlainMessage == <<"Service", "failure">>
QuotaMessage == <<"Quota", "RESOURCE_EXHAUSTED">>
TooManyMessage == <<"Error", "429", "Too", "Many", "Requests">>
DeniedMessage == <<"PERMISSION_DENIED", "for", "key">>

StatusCodes == {0, 400, 401, 403, 404, 429, 499, 500, 503}

\* The errors an operation may reject with.
Errors ==
    {Err(s, 0, 0, m) : s \in StatusCodes, m \in {NoMessage, PlainMessage}}
    \cup {Err(s, 0, 0, m) : s \in {0, 403, 500},
                            m \in {QuotaMessage, TooManyMessage, DeniedMessage}}
    \cup {Err(0, s, 0, NoMessage) : s \in {404, 429, 503}}
    \cup {Err(0, 0, s, PlainMessage) : s \in {404, 429, 503}}
    \cup {Err(404, 503, 0, PlainMessage), Err(0, 503, 404, PlainMessage)}

\* The values an operation may resolve with.
Values == {[kind |-> "value", id |-> "v1"], [kind |-> "value", id |-> "v2"]}

\* error?.status || error?.response?.status || error?.code
StatusOf(e) ==
    IF e.status # 0 THEN e.status
    ELSE IF e.rstatus # 0 THEN e.rstatus
    ELSE e.code

\* JSON.stringify(lastError): the own fields that are set, numbers in decimal.
JsonStringify(e) ==
    (IF e.status # 0 THEN <<"status", ToString(e.status)>> ELSE <<>>)
    \o (IF e.rstatus # 0 THEN <<"response", "status", ToString(e.rstatus)>> ELSE <<>>)
    \o (IF e.code # 0 THEN <<"code", ToString(e.code)>> ELSE <<>>)

\* lastError.message || JSON.stringify(lastError)
MessageOf(e) == IF e.message # <<>> THEN e.message ELSE JsonStringify(e)

\* msg.includes(marker), at the granularity of words
Includes(msg, marker) == \E k \in 1..Len(msg) : msg[k] = marker

\* ---------------------------------------------------------------- retry()
\* if (status && status >= 400 && status < 500 && status !== 429) break;
IsNonRetryable_NoRateLimitExemption(status) ==
    status # 0 /\ status >= 400 /\ status < 500

IsNonRetryable_Never(status) == FALSE

IsNonRetryable(status) ==
    status # 0 /\ status >= 400 /\ status < 500 /\ status # 429

\* if (i < retries - 1) { ... sleep ... }
ShouldSleep_AfterLast(idx, n) == idx < n

ShouldSleep(idx, n) == idx < n - 1

\* const delay = baseDelay * Math.pow(2, i);
BackoffDelay_Shifted(base, idx) == base * 2^(idx + 1)

BackoffDelay(base, idx) == base * 2^idx

RateLimitedError == [kind |-> "classified", category |-> "rate_limited"]
UnauthorizedError == [kind |-> "classified", category |-> "unauthorized"]
ServerError == [kind |-> "classified", category |-> "server_error"]
UnknownError == [kind |-> "classified", category |-> "unknown"]

\* Error Handling & Translation: the value retry() throws for lastError.
Classify_UnauthorizedFirst(e) ==
    IF e = NoError THEN UnknownError
    ELSE LET msg == MessageOf(e)
             status == StatusOf(e)
         IN  IF status = 401 \/ status = 403 \/ Includes(msg, "PERMISSION_DENIED")
                 THEN UnauthorizedError
             ELSE IF status = 429 \/ Includes(msg, "RESOURCE_EXHAUSTED")
                               \/ Includes(msg, "429")
                 THEN RateLimitedError
             ELSE IF status >= 500 THEN ServerError
             ELSE e

Classify_Raw(e) == IF e = NoError THEN UnknownError ELSE e

Classify_WrapUnmatched(e) ==
    IF e = NoError THEN UnknownError
    ELSE LET msg == MessageOf(e)
             status == StatusOf(e)
         IN  IF status = 429 \/ Includes(msg, "RESOURCE_EXHAUSTED")
                             \/ Includes(msg, "429")
                 THEN RateLimitedError
             ELSE IF status = 401 \/ status = 403 \/ Includes(msg, "PERMISSION_DENIED")
                 THEN UnauthorizedError
             ELSE IF status >= 500 THEN ServerError
             ELSE UnknownError

Classify_NoServerCategory(e) ==
    IF e = NoError THEN UnknownError
    ELSE LET msg == MessageOf(e)
             status == StatusOf(e)
         IN  IF status = 429 \/ Includes(msg, "RESOURCE_EXHAUSTED")
                             \/ Includes(msg, "429")
                 THEN RateLimitedError
             ELSE IF status = 401 \/ status = 403 \/ Includes(msg, "PERMISSION_DENIED")
                 THEN UnauthorizedError
             ELSE e

Classify(e) ==
    IF e = NoError THEN UnknownError
    ELSE LET msg == MessageOf(e)
             status == StatusOf(e)
         IN  IF status = 429 \/ Includes(msg, "RESOURCE_EXHAUSTED")
                             \/ Includes(msg, "429")
                 THEN RateLimitedError
             ELSE IF status = 401 \/ status = 403 \/ Includes(msg, "PERMISSION_DENIED")
                 THEN UnauthorizedError
             ELSE IF status >= 500 THEN ServerError
             ELSE e

NoValue == [kind |-> "none"]

\* ------------------------------------------------------ JSON and payloads
\* JSON values, tagged by type.
Undefined == [t |-> "undefined"]
JNull == [t |-> "null"]
JBool(b) == [t |-> "bool", b |-> b]
JStr(x) == [t |-> "string", s |-> x]
JArr(xs) == [t |-> "array", items |-> xs]
JObj(f) == [t |-> "object", fields |-> f]

\* JavaScript truthiness, as `||` tests it.
Truthy(v) ==
    CASE v.t = "undefined" -> FALSE
      [] v.t = "null" -> FALSE
      [] v.t = "bool" -> v.b
      [] v.t = "string" -> v.s # ""
      [] OTHER -> TRUE

\* data.name
Field(data, name) ==
    IF data.t = "object" /\ name \in DOMAIN data.fields
        THEN data.fields[name]
        ELSE Undefined

\* The JSON documents a provider may send, by their text.
QuestionsDoc == "{\"questions\":[\"q1\",\"q2\",\"q3\"]}"
NoQuestionsDoc == "{}"
EmptyQuestionsDoc == "{\"questions\":[]}"
NullDoc == "null"
AnalysisDoc == "{\"isImportant\":true,\"isUrgent\":true,\"quadrantName\":\"Do\",...}"
OddQuadrantDoc == "{\"isImportant\":true,\"isUrgent\":false,\"quadrantName\":\"Later\",...}"
PartialAnalysisDoc == "{\"quadrantName\":\"Plan\"}"

AnalysisFields(imp, urg, quad) ==
    [isImportant |-> JBool(imp), isUrgent |-> JBool(urg), quadrantName |-> JStr(quad),
     reasoning |-> JStr("because"), steps |-> JArr(<<JStr("s1"), JStr("s2")>>),
     advice |-> JStr("advice")]

\* What JSON.parse yields for each document.
JsonDocs ==
    (QuestionsDoc :> JObj([questions |-> JArr(<<JStr("q1"), JStr("q2"), JStr("q3")>>)]))
    @@ (NoQuestionsDoc :> JObj(<<>>))
    @@ (EmptyQuestionsDoc :> JObj([questions |-> JArr(<<>>)]))
    @@ (NullDoc :> JNull)
    @@ (AnalysisDoc :> JObj(AnalysisFields(TRUE, TRUE, "Do")))
    @@ (OddQuadrantDoc :> JObj(AnalysisFields(TRUE, FALSE, "Later")))
    @@ (PartialAnalysisDoc :> JObj([quadrantName |-> JStr("Plan")]))

\* The markdown code fence (three backquotes), bare and tagged json.
FenceJson == "<fence>json"
Fence == "<fence>"
Space == " "
Prose == "Here is the result:"

\* A payload text is a sequence of pieces: fences, white space, prose, documents.
Texts ==
    {<<>>}
    \cup {<<d>> : d \in DOMAIN JsonDocs}
    \cup {<<FenceJson, Space, d, Space, Fence>> : d \in {QuestionsDoc, AnalysisDoc}}
    \cup {<<Prose, Space, d>> : d \in {QuestionsDoc, AnalysisDoc}}
    \cup {<<Prose>>}

RECURSIVE RemoveAll(_, _)
\* text.replace(/piece/g, '')
RemoveAll(text, piece) ==
    IF text = <<>> THEN <<>>
    ELSE IF Head(text) = piece THEN RemoveAll(Tail(text), piece)
    ELSE <<Head(text)>> \o RemoveAll(Tail(text), piece)

RECURSIVE TrimStart(_)
TrimStart(text) ==
    IF text # <<>> /\ Head(text) = Space THEN TrimStart(Tail(text)) ELSE text

RECURSIVE TrimEnd(_)
TrimEnd(text) ==
    IF text # <<>> /\ text[Len(text)] = Space
        THEN TrimEnd(SubSeq(text, 1, Len(text) - 1))
        ELSE text

\* text.trim()
Trim(text) == TrimEnd(TrimStart(text))

\* result.replace(/```json/g, '').replace(/```/g, '').trim()
CleanJson(text) == Trim(RemoveAll(RemoveAll(text, FenceJson), Fence))

ParseFailure == [ok |-> FALSE, v |-> Undefined]

\* JSON.parse(text): a single document, white space around it allowed.
JsonParse(text) ==
    LET body == RemoveAll(text, Space)
    IN  IF Len(body) = 1 /\ body[1] \in DOMAIN JsonDocs
            THEN [ok |-> TRUE, v |-> JsonDocs[body[1]]]
            ELSE ParseFailure

\* A resolved provider call: the text it carries (NoText: response.text undefined).
NoText == [kind |-> "text", present |-> FALSE, text |-> <<>>]
TextValue(t) == [kind |-> "text", present |-> TRUE, text |-> t]

\* `x || fallback` on a text: the empty string is falsy.
TextOr(v, fallback) == IF v.present /\ v.text # <<>> THEN v.text ELSE fallback

\* ------------------------------------------------------ errors of the layer
\* throw new Error("...SiliconFlow API Key")
MissingSiliconFlowKeyError == Err(0, 0, 0, <<"SiliconFlow", "API", "Key", "missing">>)
\* throw new Error("... Gemini API Key")
MissingGeminiKeyError == Err(0, 0, 0, <<"Gemini", "API", "Key", "missing">>)
\* fetch() rejects: TypeError, no status
NetworkError == Err(0, 0, 0, <<"Failed", "to", "fetch">>)
\* response.json() / JSON.parse reject: SyntaxError, no status
SyntaxError == Err(0, 0, 0, <<"Unexpected", "token">>)
\* reading a property of null: TypeError, no status
TypeError == Err(0, 0, 0, <<"Cannot", "read", "properties", "of", "null">>)

\* The statuses of a response with !response.ok.
HttpErrorStatuses == {400, 401, 403, 404, 429, 499, 500, 503}

\* errData.message || response.statusText
HttpErrorMessages == {NoMessage, PlainMessage}

\* The configurations a call may run under.
SettingsSet ==
    [aiProvider : {"gemini", "siliconflow"}, geminiApiKey : BOOLEAN,
     envApiKey : BOOLEAN, siliconFlowApiKey : BOOLEAN]

\* const keyToUse = apiKey || process.env.API_KEY
HasGeminiKey(st) == st.geminiApiKey \/ st.envApiKey

\* fn(): the operation retry() was given starts running, or testAIConnection
\* calls the adapter directly.
\*   "retry": an opaque operation; gemini: ai.models.generateContent;
\*   siliconflow: callSiliconFlow up to its first await (or its throw).
InvokeFn(o) ==
    IF o = "retry" THEN
        /\ fpc' = "pending"
        /\ UNCHANGED <<httpRequests, sdkRequests>>
    ELSE IF settings.aiProvider = "siliconflow" THEN
        IF ~settings.siliconFlowApiKey
            THEN /\ fpc' = "noKey"
                 /\ UNCHANGED <<httpRequests, sdkRequests>>
            ELSE /\ fpc' = "fetching"
                 /\ httpRequests' = httpRequests + 1
                 /\ UNCHANGED sdkRequests
    ELSE
        /\ fpc' = "pending"
        /\ sdkRequests' = sdkRequests + 1
        /\ UNCHANGED httpRequests

\* The loop test `i < retries` at index idx: run the body's `await fn()`,
\* or leave the loop and throw the translated lastError.
LoopStep(idx, err) ==
    /\ i' = idx
    /\ IF idx < retries
          THEN /\ rpc' = "awaitFn"
               /\ calls' = calls + 1
               /\ InvokeFn(op)
               /\ UNCHANGED <<retResult, retThrown>>
          ELSE /\ rpc' = "thrown"
               /\ retThrown' = Classify(err)
               /\ fpc' = "none"
               /\ UNCHANGED <<calls, retResult, httpRequests, sdkRequests>>

\* `return await fn()` when fn resolved with v.
RetryOnResolve(v) ==
    /\ rpc = "awaitFn"
    /\ history' = Append(history, [ok |-> TRUE, e |-> NoError, v |-> v])
    /\ retResult' = v
    /\ rpc' = "returned"
    /\ fpc' = "none"
    /\ UNCHANGED <<retries, baseDelay, i, lastError, retThrown, calls, sleeps,
                   httpRequests, sdkRequests>>

\* The catch block when fn rejected with e, up to the next await or the throw.
RetryOnReject(e) ==
    /\ rpc = "awaitFn"
    /\ history' = Append(history, [ok |-> FALSE, e |-> e, v |-> NoValue])
    /\ lastError' = e
    /\ UNCHANGED <<retries, baseDelay>>
    /\ IF IsNonRetryable(StatusOf(e)) THEN
           \* break
           /\ rpc' = "thrown"
           /\ retThrown' = Classify(e)
           /\ fpc' = "none"
           /\ UNCHANGED <<i, calls, sleeps, retResult, httpRequests, sdkRequests>>
       ELSE IF ShouldSleep(i, retries) THEN
           /\ sleeps' = Append(sleeps, BackoffDelay(baseDelay, i))
           /\ rpc' = "sleeping"
           /\ fpc' = "none"
           /\ UNCHANGED <<i, calls, retResult, retThrown, httpRequests, sdkRequests>>
       ELSE
           /\ LoopStep(i + 1, e)
           /\ UNCHANGED sleeps

\* retry(fn, n, base) is called by o: the loop starts.
RetryEnter(n, base, o) ==
    /\ rpc = "idle"
    /\ retries' = n
    /\ baseDelay' = base
    /\ i' = 0
    /\ rpc' = "awaitFn"
    /\ calls' = calls + 1
    /\ InvokeFn(o)
    /\ UNCHANGED <<lastError, retResult, retThrown, sleeps, history>>

\* testAIConnection: `return true` after the awaited call, `return false`
\* in the catch block.
TestOutcome_Rethrow(ok) ==
    IF ok THEN [epc |-> "returned", value |-> JBool(TRUE), error |-> NoValue]
          ELSE [epc |-> "thrown", value |-> NoValue, error |-> SyntaxError]

TestOutcome(ok) == [epc |-> "returned", value |-> JBool(ok), error |-> NoValue]

\* testAIConnection resumes after its awaited adapter call settled.
TestSettled(ok) ==
    /\ epc = "awaitAdapter"
    /\ epc' = TestOutcome(ok).epc
    /\ epResult' = TestOutcome(ok).value
    /\ epError' = TestOutcome(ok).error
    /\ fpc' = "none"
    /\ UNCHANGED <<retryVars, settings, op, httpRequests, sdkRequests>>

\* The adapter call resolved with v: its awaiter resumes.
OnFnResolve(v, how) ==
    /\ adapterLog' = Append(adapterLog, how)
    /\ IF op = "test"
          THEN TestSettled(TRUE)
          ELSE /\ RetryOnResolve(v)
               /\ UNCHANGED <<settings, op, epc, epResult, epError>>

\* The adapter call rejected with e: its awaiter resumes.
OnFnReject(e, how) ==
    /\ adapterLog' = Append(adapterLog, how)
    /\ IF op = "test"
          THEN TestSettled(FALSE)
          ELSE /\ RetryOnReject(e)
               /\ UNCHANGED <<settings, op, epc, epResult, epError>>

\* The bare executor, called with the parameters drawn at Init.
RetryStart ==
    /\ op = "retry"
    /\ RetryEnter(retries, baseDelay, op)
    /\ UNCHANGED <<settings, op, epc, epResult, epError, adapterLog, batchVars, wizardVars, concVars>>

\* The setTimeout of the backoff fires: i++ and the loop test.
Wake ==
    /\ rpc = "sleeping"
    /\ LoopStep(i + 1, lastError)
    /\ UNCHANGED <<retries, baseDelay, lastError, sleeps, history>>
    /\ UNCHANGED <<settings, op, epc, epResult, epError, adapterLog, batchVars, wizardVars, concVars>>

\* What the pending call may resolve with.
ResolveValues == IF op = "retry" THEN Values ELSE {NoText} \cup {TextValue(t) : t \in Texts}

\* The opaque operation (op = "retry") or the Gemini SDK call resolves.
FnResolve ==
    /\ fpc = "pending"
    /\ \E v \in ResolveValues : OnFnResolve(v, "ok")
    /\ UNCHANGED <<batchVars, wizardVars, concVars>>

\* The opaque operation or the Gemini SDK call rejects.
FnReject ==
    /\ fpc = "pending"
    /\ \E e \in Errors : OnFnReject(e, "rejected")
    /\ UNCHANGED <<batchVars, wizardVars, concVars>>

\* ---------------------------------------------------------- callSiliconFlow
\* if (!apiKey) throw new Error(...): the call rejects before any fetch.
SfMissingKey ==
    /\ fpc = "noKey"
    /\ OnFnReject(MissingSiliconFlowKeyError, "noKey")
    /\ UNCHANGED <<batchVars, wizardVars, concVars>>

\* fetch() rejects (no response).
SfNetworkError ==
    /\ fpc = "fetching"
    /\ OnFnReject(NetworkError, "network")
    /\ UNCHANGED <<batchVars, wizardVars, concVars>>

\* if (!response.ok) throw { status: response.status, message: ... }
SfHttpError_NoStatus ==
    /\ fpc = "fetching"
    /\ \E s \in HttpErrorStatuses, m \in HttpErrorMessages :
           OnFnReject(Err(0, 0, 0, m), "http")
    /\ UNCHANGED <<batchVars, wizardVars, concVars>>

SfHttpError ==
    /\ fpc = "fetching"
    /\ \E s \in HttpErrorStatuses, m \in HttpErrorMessages :
           OnFnReject(Err(s, 0, 0, m), "http")
    /\ UNCHANGED <<batchVars, wizardVars, concVars>>

\* response.ok, but `await response.json()` rejects: the body is not JSON.
SfBadBody ==
    /\ fpc = "fetching"
    /\ OnFnReject(SyntaxError, "badBody")
    /\ UNCHANGED <<batchVars, wizardVars, concVars>>

\* response.ok: return data.choices?.[0]?.message?.content || ""
SfOk ==
    /\ fpc = "fetching"
    /\ \E v \in {NoText} \cup {TextValue(t) : t \in Texts} :
           OnFnResolve(TextValue(TextOr(v, <<>>)), "ok")
    /\ UNCHANGED <<batchVars, wizardVars, concVars>>

\* ------------------------------------------------------------ entry points
DefaultQuestions == JArr(<<JStr("d1"), JStr("d2"), JStr("d3")>>)

\* generateAssessmentQuestions, after `await retry(...)`: parse and return.
QuestionsResult(st, v) ==
    LET parsed == IF st.aiProvider = "siliconflow"
                      THEN JsonParse(CleanJson(v.text))
                      ELSE JsonParse(TextOr(v, <<NoQuestionsDoc>>))
        fallback == IF st.aiProvider = "siliconflow" THEN DefaultQuestions ELSE JArr(<<>>)
    IN  IF ~parsed.ok THEN [ok |-> FALSE, v |-> Undefined, e |-> SyntaxError]
        ELSE IF parsed.v.t = "null" THEN [ok |-> FALSE, v |-> Undefined, e |-> TypeError]
        ELSE [ok |-> TRUE,
              v |-> IF Truthy(Field(parsed.v, "questions"))
                        THEN Field(parsed.v, "questions")
                        ELSE fallback,
              e |-> NoValue]

\* analyzeTaskWithGemini, after `await retry(...)`: parse and build the result.
AnalysisResult(st, v) ==
    LET parsed == IF st.aiProvider = "siliconflow"
                      THEN JsonParse(CleanJson(v.text))
                      ELSE JsonParse(TextOr(v, <<NoQuestionsDoc>>))
    IN  IF ~parsed.ok THEN [ok |-> FALSE, v |-> Undefined, e |-> SyntaxError]
        ELSE IF parsed.v.t = "null" THEN [ok |-> FALSE, v |-> Undefined, e |-> TypeError]
        ELSE [ok |-> TRUE,
              v |-> JObj([quadrant |-> Field(parsed.v, "quadrantName"),
                          isImportant |-> Field(parsed.v, "isImportant"),
                          isUrgent |-> Field(parsed.v, "isUrgent"),
                          reasoning |-> Field(parsed.v, "reasoning"),
                          steps |-> IF Truthy(Field(parsed.v, "steps"))
                                        THEN Field(parsed.v, "steps")
                                        ELSE JArr(<<>>),
                          advice |-> Field(parsed.v, "advice")]),
              e |-> NoValue]

\* generateAssessmentQuestions / analyzeTaskWithGemini up to `await retry(...)`:
\* the Gemini branch builds its client first, which throws without a key.
EntryStart(o) ==
    /\ op = "none"
    /\ epc = "idle"
    /\ op' = o
    /\ IF settings.aiProvider = "gemini" /\ ~HasGeminiKey(settings)
          THEN /\ epc' = "thrown"
               /\ epError' = MissingGeminiKeyError
               /\ UNCHANGED <<retryVars, fpc, httpRequests, sdkRequests>>
          ELSE /\ epc' = "awaitRetry"
               /\ RetryEnter(DefaultRetries, DefaultBaseDelay, o)
               /\ UNCHANGED epError
    /\ UNCHANGED <<settings, epResult, adapterLog, batchVars, wizardVars, concVars>>

GenerateQuestionsStart == EntryStart("questions")

AnalyzeStart == EntryStart("analyze")

\* The entry point resumes after retry() returned: parse, then return or throw.
EntryAfterReturn ==
    /\ epc = "awaitRetry"
    /\ rpc = "returned"
    /\ LET r == IF op = "questions" THEN QuestionsResult(settings, retResult)
                                    ELSE AnalysisResult(settings, retResult)
       IN  /\ epc' = IF r.ok THEN "returned" ELSE "thrown"
           /\ epResult' = IF r.ok THEN r.v ELSE NoValue
           /\ epError' = IF r.ok THEN NoValue ELSE r.e
    /\ UNCHANGED <<retryVars, settings, op, fpc, httpRequests, sdkRequests,
                   adapterLog, batchVars, wizardVars, concVars>>

\* The entry point resumes after retry() threw: catch, log, rethrow.
EntryAfterThrow ==
    /\ epc = "awaitRetry"
    /\ rpc = "thrown"
    /\ epc' = "thrown"
    /\ epError' = retThrown
    /\ UNCHANGED <<retryVars, settings, op, fpc, httpRequests, sdkRequests,
                   epResult, adapterLog, batchVars, wizardVars, concVars>>

\* testAIConnection up to its await: one adapter call, outside retry().
TestConnectionStart ==
    /\ op = "none"
    /\ epc = "idle"
    /\ op' = "test"
    /\ IF settings.aiProvider = "gemini" /\ ~HasGeminiKey(settings)
          THEN /\ epc' = TestOutcome(FALSE).epc
               /\ epResult' = TestOutcome(FALSE).value
               /\ epError' = TestOutcome(FALSE).error
               /\ UNCHANGED <<fpc, httpRequests, sdkRequests>>
          ELSE /\ epc' = "awaitAdapter"
               /\ InvokeFn("test")
               /\ UNCHANGED <<epResult, epError>>
    /\ UNCHANGED <<retryVars, settings, adapterLog, batchVars, wizardVars, concVars>>

BaseDelays == {DefaultBaseDelay, 250}

NoSettings == [aiProvider |-> "gemini", geminiApiKey |-> FALSE, envApiKey |-> FALSE,
               siliconFlowApiKey |-> FALSE]

\* The retry() calls that run at once, and one of them before it is called.
ConcurrentCalls == 1..MaxConcurrentCalls

IdleCall ==
    [rpc |-> "idle", i |-> 0, lastError |-> NoError, retResult |-> NoValue,
     retThrown |-> NoValue, calls |-> 0, sleeps |-> <<>>, history |-> <<>>,
     beside |-> {}]

InitCall ==
    /\ concurrent = [c \in ConcurrentCalls |-> IdleCall]
    /\ i = 0
    /\ rpc = "idle"
    /\ lastError = NoError
    /\ retResult = NoValue
    /\ retThrown = NoValue
    /\ calls = 0
    /\ sleeps = <<>>
    /\ history = <<>>
    /\ epc = "idle"
    /\ fpc = "none"
    /\ httpRequests = 0
    /\ sdkRequests = 0
    /\ epResult = NoValue
    /\ epError = NoValue
    /\ adapterLog = <<>>

InitRetry ==
    /\ retries \in 1..MaxRetries
    /\ baseDelay \in BaseDelays
    /\ settings = NoSettings
    /\ op = "retry"
    /\ InitCall
    /\ InitBatch
    /\ InitWizardAt("dashboard")

NextRetry == RetryStart \/ FnResolve \/ FnReject \/ Wake

SpecRetry == InitRetry /\ [][NextRetry]_vars

\* One orchestration call under any configuration.
Init ==
    /\ retries = DefaultRetries
    /\ baseDelay = DefaultBaseDelay
    /\ settings \in SettingsSet
    /\ op = "none"
    /\ InitCall
    /\ InitBatch
    /\ InitWizardAt("dashboard")

Next ==
    \/ GenerateQuestionsStart
    \/ AnalyzeStart
    \/ TestConnectionStart
    \/ FnResolve
    \/ FnReject
    \/ SfMissingKey
    \/ SfNetworkError
    \/ SfHttpError
    \/ SfBadBody
    \/ SfOk
    \/ Wake
    \/ EntryAfterReturn
    \/ EntryAfterThrow

Spec == Init /\ [][Next]_vars

\* ============================================================ batch wizard
\* The texts the user may type: k task lines, with or without a blank line
\* before and between them.
RawInputs ==
    {[k \in 1..n |-> k] : n \in 0..MaxBatchLines}
    \cup {<<0>>, <<0, 0>>, <<0, 1>>, <<1, 0, 2>>, <<1, 0, 2, 0>>, <<2, 1>>}

\* batchRawInput.split('\n').map(l => l.trim()).filter(l => l.length > 0)
NonEmptyLines(raw) == SelectSeq(raw, LAMBDA l : l # 0)

\* if (lines.length > 20)
ExceedsBatchLimit_OffByOne(n) == n >= BatchSizeLimit

ExceedsBatchLimit(n) == n > BatchSizeLimit

\* lines.map(line => ({ id: crypto.randomUUID(), name: line, estimatedTime:
\* batchCommonDate })): the ids are fresh and distinct; the k-th task of the
\* batch gets id k.
BatchTasksOf(lines) ==
    [k \in 1..Len(lines) |->
        [id |-> k, name |-> lines[k], estimatedTime |-> "batchCommonDate"]]

IdsOf(tasks) == {tasks[k].id : k \in 1..Len(tasks)}

\* The question lists the provider may send for one task.
QuestionLists == {<<>>, <<"q1", "q2">>, <<"q1", "q2", "q3">>}

\* The question maps generateBatchAssessmentQuestions may resolve with: any
\* subset of the tasks, each with a list of questions.
QuestionMaps(tasks) ==
    IF Len(tasks) <= MaxAnsweredTasks
        THEN UNION {[S -> QuestionLists] : S \in SUBSET IdsOf(tasks)}
        ELSE {[id \in IdsOf(tasks) |-> <<"q1", "q2", "q3">>]}

\* One BatchAnalysisResult: its reasoning and advice record the id they are
\* about.  The id 0 is the id of no task of the batch.
BatchResult(id, q) ==
    [taskId |-> id, quadrant |-> q, reasoning |-> <<"reasoning", id>>,
     advice |-> <<"advice", id>>]

\* The results analyzeBatchTasks may resolve with: one result per task under
\* any quadrants, in the order of the tasks or in the reverse order; and the
\* arrays that do not match the tasks: an empty one, one without the first
\* task, one with an unknown taskId in its place, one with it twice.
BatchResultsFor(tasks) ==
    LET n == Len(tasks)
        base == [k \in 1..n |-> BatchResult(tasks[k].id, "Do")]
    IN  {[k \in 1..n |-> BatchResult(tasks[k].id, qs[k])] : qs \in [1..n -> QuadrantType]}
        \cup {[k \in 1..n |-> BatchResult(tasks[n + 1 - k].id, qs[k])] :
                   qs \in [1..n -> QuadrantType]}
        \cup {<<>>, Tail(base), <<BatchResult(0, "Do")>> \o Tail(base),
               <<base[1]>> \o base}

\* state.batchQuestions[task.id] || []
QuestionsShown(id) == IF id \in DOMAIN batchQuestions THEN batchQuestions[id] ELSE <<>>

\* The indices every task must have answered: answers[0], answers[1], answers[2].
RequiredAnswers == {0, 1, 2}

\* state.batchInputs.every(t => answers && answers[0] !== undefined && ...)
AllAnswered_Any(inputs, answers) ==
    \A k \in 1..Len(inputs) :
        /\ inputs[k].id \in DOMAIN answers
        /\ \E q \in RequiredAnswers : q \in DOMAIN answers[inputs[k].id]

AllAnswered(inputs, answers) ==
    \A k \in 1..Len(inputs) :
        /\ inputs[k].id \in DOMAIN answers
        /\ RequiredAnswers \subseteq DOMAIN answers[inputs[k].id]

\* The user edits the textarea (onChange => setBatchRawInput), which the input
\* step renders; the text is edited while no question call is in flight.
SetBatchRawInput ==
    /\ view = "batch-wizard"
    /\ batchWizardStep = "input"
    /\ pendingGen = NoCall
    /\ \E raw \in RawInputs : batchRawInput' = raw
    /\ UNCHANGED <<isLoading, error, batchWizardStep, batchInputs, batchQuestions,
                   batchAnswers, batchResults, pendingGen, pendingAnalyze,
                   genBatchCalls, analyzeBatchCalls>>
    /\ UNCHANGED <<concVars, retryVars, orchVars, wizardVars>>

\* handleBatchInputSubmit up to its await; the button is rendered in the input
\* step and disabled while isLoading.
HandleBatchInputSubmit ==
    /\ view = "batch-wizard"
    /\ batchWizardStep = "input"
    /\ ~isLoading
    /\ genBatchCalls < MaxBatchCalls
    /\ LET lines == NonEmptyLines(batchRawInput)
       IN  IF Len(lines) = 0 THEN
               /\ error' = "EmptyBatch"
               /\ UNCHANGED <<isLoading, pendingGen, genBatchCalls>>
           ELSE IF ExceedsBatchLimit(Len(lines)) THEN
               /\ error' = "TooManyTasks"
               /\ UNCHANGED <<isLoading, pendingGen, genBatchCalls>>
           ELSE
               /\ isLoading' = TRUE
               /\ error' = "null"
               /\ pendingGen' = [kind |-> "call", tasks |-> BatchTasksOf(lines)]
               /\ genBatchCalls' = genBatchCalls + 1
    /\ UNCHANGED <<batchRawInput, batchWizardStep, batchInputs, batchQuestions,
                   batchAnswers, batchResults, pendingAnalyze, analyzeBatchCalls>>
    /\ UNCHANGED <<concVars, retryVars, orchVars, wizardVars>>

\* handleBatchInputSubmit resumes: generateBatchAssessmentQuestions resolved.
BatchQuestionsResolve ==
    /\ pendingGen # NoCall
    /\ \E qmap \in QuestionMaps(pendingGen.tasks) :
           /\ batchInputs' = pendingGen.tasks
           /\ batchQuestions' = qmap
    /\ batchWizardStep' = "assessment"
    /\ batchAnswers' = <<>>
    /\ isLoading' = FALSE
    /\ pendingGen' = NoCall
    /\ UNCHANGED <<batchRawInput, error, batchResults, pendingAnalyze,
                   genBatchCalls, analyzeBatchCalls>>
    /\ UNCHANGED <<concVars, retryVars, orchVars, wizardVars>>

\* handleBatchInputSubmit resumes: generateBatchAssessmentQuestions rejected.
BatchQuestionsReject ==
    /\ pendingGen # NoCall
    /\ error' = "BatchQuestionsFailed"
    /\ isLoading' = FALSE
    /\ pendingGen' = NoCall
    /\ UNCHANGED <<batchRawInput, batchWizardStep, batchInputs, batchQuestions,
                   batchAnswers, batchResults, pendingAnalyze, genBatchCalls,
                   analyzeBatchCalls>>
    /\ UNCHANGED <<concVars, retryVars, orchVars, wizardVars>>

\* The Yes button (b = TRUE) or the No button (b = FALSE) of question qIdx of
\* a task, rendered for every question of state.batchQuestions[task.id].
AnswerBatch(b) ==
    /\ view = "batch-wizard"
    /\ batchWizardStep = "assessment"
    /\ Len(batchInputs) <= MaxAnsweredTasks
    /\ \E k \in 1..Len(batchInputs) :
         /\ \E qIdx \in 0..(Len(QuestionsShown(batchInputs[k].id)) - 1) :
              LET id == batchInputs[k].id
                  old == IF id \in DOMAIN batchAnswers THEN batchAnswers[id] ELSE <<>>
              IN  batchAnswers' = (id :> ((qIdx :> b) @@ old)) @@ batchAnswers
    /\ UNCHANGED <<batchRawInput, isLoading, error, batchWizardStep, batchInputs,
                   batchQuestions, batchResults, pendingGen, pendingAnalyze,
                   genBatchCalls, analyzeBatchCalls>>
    /\ UNCHANGED <<concVars, retryVars, orchVars, wizardVars>>

AnswerBatchQuestion == \E b \in BOOLEAN : AnswerBatch(b)

\* handleBatchAnswerSubmit up to its await; the button is rendered in the
\* assessment step.
HandleBatchAnswerSubmit ==
    /\ view = "batch-wizard"
    /\ batchWizardStep = "assessment"
    /\ analyzeBatchCalls < MaxBatchCalls
    /\ IF ~AllAnswered(batchInputs, batchAnswers) THEN
           /\ error' = "UnansweredQuestions"
           /\ UNCHANGED <<batchWizardStep, pendingAnalyze, analyzeBatchCalls>>
       ELSE
           /\ batchWizardStep' = "analyzing"
           /\ error' = "null"
           /\ pendingAnalyze' = [kind |-> "call", inputs |-> batchInputs,
                                 questions |-> batchQuestions, answers |-> batchAnswers]
           /\ analyzeBatchCalls' = analyzeBatchCalls + 1
    /\ UNCHANGED <<batchRawInput, isLoading, batchInputs, batchQuestions,
                   batchAnswers, batchResults, pendingGen, genBatchCalls>>
    /\ UNCHANGED <<concVars, retryVars, orchVars, wizardVars>>

\* handleBatchAnswerSubmit resumes: analyzeBatchTasks resolved.
BatchAnalysisResolve ==
    /\ pendingAnalyze # NoCall
    /\ \E results \in BatchResultsFor(pendingAnalyze.inputs) : batchResults' = results
    /\ batchWizardStep' = "review"
    /\ pendingAnalyze' = NoCall
    /\ UNCHANGED <<batchRawInput, isLoading, error, batchInputs, batchQuestions,
                   batchAnswers, pendingGen, genBatchCalls, analyzeBatchCalls>>
    /\ UNCHANGED <<concVars, retryVars, orchVars, wizardVars>>

\* handleBatchAnswerSubmit resumes: analyzeBatchTasks rejected.
BatchAnalysisReject ==
    /\ pendingAnalyze # NoCall
    /\ error' = "BatchAnalysisFailed"
    /\ batchWizardStep' = "assessment"
    /\ pendingAnalyze' = NoCall
    /\ UNCHANGED <<batchRawInput, isLoading, batchInputs, batchQuestions,
                   batchAnswers, batchResults, pendingGen, genBatchCalls,
                   analyzeBatchCalls>>
    /\ UNCHANGED <<concVars, retryVars, orchVars, wizardVars>>

\* state.batchInputs.find(t => t.id === res.taskId)
FindInput_First(inputs, taskId) == inputs[1]

FindInput(inputs, taskId) ==
    IF \E k \in DOMAIN inputs : inputs[k].id = taskId
        THEN inputs[CHOOSE k \in DOMAIN inputs :
                        /\ inputs[k].id = taskId
                        /\ \A j \in 1..(k - 1) : inputs[j].id # taskId]
        ELSE NoTask

\* The task handleBatchReviewSave makes of one result.
TaskOfResult(res, inputs, id) ==
    LET originalInput == FindInput(inputs, res.taskId)
    IN  [id |-> id,
         name |-> IF originalInput # NoTask THEN originalInput.name ELSE "Unknown Task",
         estimatedTime |-> IF originalInput # NoTask THEN originalInput.estimatedTime
                                                     ELSE "batchCommonDate",
         quadrant |-> res.quadrant,
         isImportant |-> IsImportantOf(res.quadrant),
         isUrgent |-> IsUrgentOf(res.quadrant),
         reasoning |-> res.reasoning,
         steps |-> <<>>,
         advice |-> res.advice,
         isCompleted |-> FALSE]

\* A quadrant button of result idx in the review step:
\* newResults[idx].quadrant = q.
AdjustBatchQuadrant ==
    /\ view = "batch-wizard"
    /\ batchWizardStep = "review"
    /\ \E idx \in DOMAIN batchResults, q \in QuadrantType :
         /\ q # batchResults[idx].quadrant
         /\ batchResults' = [batchResults EXCEPT ![idx].quadrant = q]
    /\ UNCHANGED <<batchRawInput, isLoading, error, batchWizardStep, batchInputs,
                   batchQuestions, batchAnswers, pendingGen, pendingAnalyze,
                   genBatchCalls, analyzeBatchCalls>>
    /\ UNCHANGED <<concVars, retryVars, orchVars, wizardVars>>

\* handleBatchReviewSave up to its await (with a configured database) or to
\* its end (without one): the button is rendered in the review step and
\* disabled while isLoading.
HandleBatchReviewSave ==
    /\ view = "batch-wizard"
    /\ batchWizardStep = "review"
    /\ ~isLoading
    /\ LET newTasks == [k \in 1..Len(batchResults) |->
                           TaskOfResult(batchResults[k], batchInputs, tasksCreated + k)]
       IN  /\ stateTasks' = stateTasks \o newTasks
           /\ tasksCreated' = tasksCreated + Len(newTasks)
    /\ view' = "dashboard"
    /\ batchWizardStep' = "input"
    /\ batchInputs' = <<>>
    /\ IF isSupabaseConfigured
           THEN /\ isLoading' = TRUE
                /\ pendingSaves' = [pendingSaves EXCEPT !.batch = @ + 1]
           ELSE UNCHANGED <<isLoading, pendingSaves>>
    /\ UNCHANGED <<batchRawInput, error, batchQuestions, batchAnswers, batchResults,
                   pendingGen, pendingAnalyze, genBatchCalls, analyzeBatchCalls>>
    /\ UNCHANGED <<wizardStep, inputName, currentTaskInput, currentQuestions,
                   currentAnswers, currentAnalysis, inflight, wizardCalls, language,
                   displayContent, displayed>>
    /\ UNCHANGED <<selectedTask, isEditingTask, editForm, pendingDeletes, rollbacks,
                   isSupabaseConfigured, taskOps>>
    /\ UNCHANGED <<concVars, retryVars, orchVars>>

\* handleBatchReviewSave resumes: Promise.all of supabaseService.addTask settled.
BatchSaveSettled ==
    /\ pendingSaves.batch > 0
    /\ pendingSaves' = [pendingSaves EXCEPT !.batch = @ - 1]
    /\ \E ok \in BOOLEAN : error' = IF ok THEN error ELSE "BatchSyncFailed"
    /\ isLoading' = FALSE
    /\ UNCHANGED <<batchRawInput, batchWizardStep, batchInputs, batchQuestions,
                   batchAnswers, batchResults, pendingGen, pendingAnalyze,
                   genBatchCalls, analyzeBatchCalls>>
    /\ UNCHANGED <<view, wizardStep, inputName, currentTaskInput, currentQuestions,
                   currentAnswers, currentAnalysis, stateTasks, inflight, wizardCalls,
                   language, displayContent, displayed>>
    /\ UNCHANGED <<selectedTask, isEditingTask, editForm, pendingDeletes, rollbacks,
                   isSupabaseConfigured, tasksCreated, taskOps>>
    /\ UNCHANGED <<concVars, retryVars, orchVars>>

InitBatchWizard ==
    /\ retries = DefaultRetries
    /\ baseDelay = DefaultBaseDelay
    /\ settings \in {st \in SettingsSet : st.aiProvider = "gemini" /\ st.geminiApiKey
                                          /\ ~st.envApiKey /\ ~st.siliconFlowApiKey}
    /\ op = "none"
    /\ InitCall
    /\ InitBatch
    /\ InitWizardAt("batch-wizard")

NextBatch ==
    \/ SetBatchRawInput
    \/ HandleBatchInputSubmit
    \/ BatchQuestionsResolve
    \/ BatchQuestionsReject
    \/ AnswerBatchQuestion
    \/ HandleBatchAnswerSubmit
    \/ BatchAnalysisResolve
    \/ BatchAnalysisReject

\* The review step of the batch wizard.
NextBatchReview ==
    \/ AdjustBatchQuadrant
    \/ HandleBatchReviewSave

SpecBatch == InitBatchWizard /\ [][NextBatch]_vars

\* A session in the batch wizard from startBatchTask to the saved batch, of a
\* user who answers every question with yes.
NextBatchReviewed ==
    \/ SetBatchRawInput
    \/ HandleBatchInputSubmit
    \/ BatchQuestionsResolve
    \/ BatchQuestionsReject
    \/ AnswerBatch(TRUE)
    \/ HandleBatchAnswerSubmit
    \/ BatchAnalysisResolve
    \/ BatchAnalysisReject
    \/ NextBatchReview

SpecBatchReview == InitBatchWizard /\ [][NextBatchReviewed]_vars

\* ===================================================== claims on retry()
\* The status an error carries: its status field, else its response's
\* status, else its code.
CarriedStatus(e) ==
    CASE e.status > 0 -> e.status
      [] e.status = 0 /\ e.rstatus > 0 -> e.rstatus
      [] OTHER -> e.code

\* The text the executor inspects for markers.
InspectedText(e) ==
    IF Len(e.message) > 0 THEN e.message
    ELSE <<ToString(e.status), ToString(e.rstatus), ToString(e.code)>>

HasRateLimitMarker(e) ==
    \E k \in DOMAIN InspectedText(e) :
        InspectedText(e)[k] \in {"RESOURCE_EXHAUSTED", "429"}

Failed(k) == ~history[k].ok
FailedWith(k, S) == Failed(k) /\ CarriedStatus(history[k].e) \in S

ServerStatuses == 500..599
ClientStatusesNot429 == (400..499) \ {429}

\* The delays of the first n backoff sleeps: baseDelay * 2^0, ..., baseDelay * 2^(n-1).
BackoffSchedule(n) == [k \in 1..n |-> baseDelay * 2^(k - 1)]

\* C1: while every attempt so far has failed with a 5xx status, the operation
\* has been invoked at most `retries` times and the sleeps so far are
\* baseDelay * 2^i for i = 0, 1, ...; the executor does not return; and when it
\* throws it has invoked the operation exactly `retries` times and slept
\* exactly retries - 1 times (no sleep after the last failed attempt).
C1_RetryCeiling ==
    (\A k \in 1..Len(history) : FailedWith(k, ServerStatuses)) =>
        /\ calls <= retries
        /\ rpc # "returned"
        /\ sleeps = BackoffSchedule(Len(sleeps))
        /\ rpc = "sleeping" => (Len(sleeps) = calls /\ calls < retries)
        /\ rpc = "awaitFn" => Len(sleeps) = calls - 1
        /\ rpc = "thrown" => (calls = retries /\ Len(history) = retries
                                /\ sleeps = BackoffSchedule(retries - 1))

C1_Witness ==
    /\ rpc = "thrown"
    /\ retries = 3
    /\ baseDelay = 1000
    /\ Len(history) = 3
    /\ \A k \in 1..3 : FailedWith(k, {500, 503})
    /\ calls = 3
    /\ sleeps = <<1000, 2000>>

\* C2: a failure with a 4xx status other than 429 is the last attempt: the
\* executor has thrown in the same step, without a sleep and without another
\* invocation; when it is the first attempt the operation ran exactly once
\* and nothing was slept.
C2_NoRetryOn4xx ==
    \A k \in 1..Len(history) :
        FailedWith(k, ClientStatusesNot429) =>
            /\ k = Len(history)
            /\ rpc = "thrown"
            /\ calls = k
            /\ Len(sleeps) = k - 1
            /\ k = 1 => (calls = 1 /\ sleeps = <<>>)

C2_Witness ==
    /\ retries = 3
    /\ Len(history) = 1
    /\ FailedWith(1, {404})
    /\ rpc = "thrown"
    /\ calls = 1
    /\ sleeps = <<>>

\* C3: when every attempt fails with status 429 the executor keeps retrying
\* up to the ceiling, and once it throws it has invoked the operation
\* `retries` times and throws the rate-limit error, not the raw error.
C3_RateLimitRetried ==
    (\A k \in 1..Len(history) : FailedWith(k, {429})) =>
        /\ rpc = "thrown" => (calls = retries /\ Len(history) = retries
                                /\ Len(sleeps) = retries - 1
                                /\ retThrown = RateLimitedError)
        /\ (rpc # "thrown" /\ Len(history) > 0) => Len(history) < retries

C3_Witness ==
    /\ rpc = "thrown"
    /\ retries = 3
    /\ Len(history) = 3
    /\ \A k \in 1..3 : FailedWith(k, {429})
    /\ calls = 3
    /\ retThrown = RateLimitedError

\* C4: a success on attempt k ends the loop: the executor has returned that
\* attempt's value, the operation was invoked exactly k times, and the sleeps
\* are exactly baseDelay * 2^0 .. baseDelay * 2^(k-2) (baseDelay then
\* 2 * baseDelay for a success on the third attempt).
C4_SuccessEndsLoop ==
    \A k \in 1..Len(history) :
        history[k].ok =>
            /\ k = Len(history)
            /\ rpc = "returned"
            /\ retResult = history[k].v
            /\ retThrown = NoValue
            /\ calls = k
            /\ sleeps = BackoffSchedule(k - 1)

C4_Witness ==
    /\ rpc = "returned"
    /\ baseDelay = 1000
    /\ Len(history) = 3
    /\ FailedWith(1, {503})
    /\ FailedWith(2, {503})
    /\ history[3].ok
    /\ retResult = history[3].v
    /\ calls = 3
    /\ sleeps = <<1000, 2000>>

\* C5 as stated: a first failure with status 401 or 403 is not retried (one
\* invocation, no sleep) and the executor throws the invalid-credentials
\* error.
C5_UnauthorizedSurfaced ==
    (Len(history) >= 1 /\ FailedWith(1, {401, 403})) =>
        /\ rpc = "thrown"
        /\ calls = 1
        /\ sleeps = <<>>
        /\ retThrown = UnauthorizedError

\* C5 amended: a first failure with status 401 or 403 is not retried (one
\* invocation, no sleep); the executor throws the invalid-credentials error
\* unless the text it inspects contains RESOURCE_EXHAUSTED or 429, in which
\* case it throws the rate-limit error.
C5_UnauthorizedUnlessRateMarker ==
    (Len(history) >= 1 /\ FailedWith(1, {401, 403})) =>
        /\ rpc = "thrown"
        /\ calls = 1
        /\ sleeps = <<>>
        /\ retThrown = IF HasRateLimitMarker(history[1].e)
                           THEN RateLimitedError
                           ELSE UnauthorizedError

C5_Witness ==
    /\ Len(history) = 1
    /\ FailedWith(1, {401})
    /\ ~HasRateLimitMarker(history[1].e)
    /\ rpc = "thrown"
    /\ calls = 1
    /\ retThrown = UnauthorizedError

\* ============================================ claims on the entry points
SiliconFlowWithoutKey ==
    settings.aiProvider = "siliconflow" /\ ~settings.siliconFlowApiKey

\* C6: with aiProvider = 'siliconflow' and no siliconFlowApiKey, question
\* generation and task classification make no HTTP request, attempt the
\* provider call at most once, never sleep, and the caller gets the
\* missing-credentials error.
C6_MissingKeyFailsFast ==
    (op \in {"questions", "analyze"} /\ SiliconFlowWithoutKey) =>
        /\ httpRequests = 0
        /\ calls <= 1
        /\ sleeps = <<>>
        /\ epc # "returned"
        /\ epc = "thrown" => epError = MissingSiliconFlowKeyError

\* C7: testAIConnection never throws; it is not run through retry(); it makes
\* at most one provider call, and none without a key; it returns true exactly
\* when that call succeeded and false on every failure.
C7_TestNeverThrows ==
    op = "test" =>
        /\ epc # "thrown"
        /\ epError = NoValue
        /\ rpc = "idle" /\ calls = 0 /\ sleeps = <<>>
        /\ httpRequests + sdkRequests <= 1
        /\ Len(adapterLog) <= 1
        /\ (SiliconFlowWithoutKey \/ (settings.aiProvider = "gemini"
                                       /\ ~settings.geminiApiKey /\ ~settings.envApiKey))
               => httpRequests + sdkRequests = 0
        /\ epc = "returned" =>
               /\ fpc = "none"
               /\ epResult \in {JBool(TRUE), JBool(FALSE)}
               /\ (epResult = JBool(TRUE)) <=> (adapterLog = <<"ok">>)

C7_Witness ==
    /\ op = "test"
    /\ epc = "returned"
    /\ epResult = JBool(FALSE)
    /\ adapterLog = <<"http">>
    /\ httpRequests = 1

\* C8: once a provider call has succeeded at the transport level (HTTP 2xx,
\* or the SDK call resolved) no further provider call is made for that
\* orchestration call, whether the body was JSON or not, and a payload or body
\* that does not parse ends in an error for the caller.
TransportSucceeded(k) == adapterLog[k] \in {"ok", "badBody"}

C8_ParseFailureNotRetried ==
    (op \in {"questions", "analyze"}) =>
        \A k \in 1..Len(adapterLog) :
            TransportSucceeded(k) =>
                /\ k = Len(adapterLog)
                /\ calls = k

\* ============================================ claims on the batch wizard
\* The number of non-empty lines of the textarea.
TypedTasks == Cardinality({k \in DOMAIN batchRawInput : batchRawInput[k] > 0})

\* C9: a submit of more than 20 task lines sets the size-limit error and makes
\* no AI call; a submit of 1 to 20 task lines makes exactly one
\* generateBatchAssessmentQuestions call, for exactly those tasks; and no
\* other step makes such a call.
C9_BatchSizeGuard ==
    [][ /\ HandleBatchInputSubmit =>
            /\ TypedTasks > 20 =>
                   /\ error' = "TooManyTasks"
                   /\ genBatchCalls' = genBatchCalls
                   /\ pendingGen' = NoCall
                   /\ batchWizardStep' = "input"
            /\ TypedTasks \in 1..20 =>
                   /\ genBatchCalls' = genBatchCalls + 1
                   /\ pendingGen' # NoCall
                   /\ Len(pendingGen'.tasks) = TypedTasks
                   /\ error' = "null"
        /\ genBatchCalls' # genBatchCalls =>
            /\ HandleBatchInputSubmit
            /\ TypedTasks \in 1..20
      ]_vars

C9_Witness ==
    /\ TypedTasks = 21
    /\ error = "TooManyTasks"
    /\ genBatchCalls = 0
    /\ pendingGen = NoCall
    /\ batchWizardStep = "input"

\* Every task of the current batch has answers 0, 1 and 2 recorded.
EveryTaskAnswered ==
    \A k \in DOMAIN batchInputs :
        \A q \in 0..2 :
            /\ batchInputs[k].id \in DOMAIN batchAnswers
            /\ q \in DOMAIN batchAnswers[batchInputs[k].id]

\* C10: analyzeBatchTasks is called only by a submit made when every task of
\* the batch has answers 0, 1 and 2; a submit made when some task lacks an
\* answer sets an error, makes no AI call and leaves the wizard in the
\* assessment step.
C10_BatchNeedsAllAnswers ==
    [][ /\ analyzeBatchCalls' # analyzeBatchCalls =>
            /\ HandleBatchAnswerSubmit
            /\ EveryTaskAnswered
            /\ analyzeBatchCalls' = analyzeBatchCalls + 1
            /\ pendingAnalyze'.inputs = batchInputs
            /\ pendingAnalyze'.answers = batchAnswers
        /\ (HandleBatchAnswerSubmit /\ ~EveryTaskAnswered) =>
            /\ error' = "UnansweredQuestions"
            /\ analyzeBatchCalls' = analyzeBatchCalls
            /\ pendingAnalyze' = pendingAnalyze
            /\ batchWizardStep' = "assessment"
      ]_vars

\* The second task was omitted from the question map, the first is answered
\* in full, and the submit was rejected.
C10_Witness ==
    /\ Len(batchInputs) = 2
    /\ DOMAIN batchQuestions = {batchInputs[1].id}
    /\ batchInputs[1].id \in DOMAIN batchAnswers
    /\ DOMAIN batchAnswers[batchInputs[1].id] = {0, 1, 2}
    /\ error = "UnansweredQuestions"
    /\ batchWizardStep = "assessment"
    /\ analyzeBatchCalls = 0
    /\ pendingAnalyze = NoCall

\* ===================================== claims on the parsed provider payload
\* The payload the entry point parsed: retry()'s result, cleaned of fences for
\* SiliconFlow, "{}" in place of an empty Gemini text.
ReturnedPayload ==
    IF settings.aiProvider = "siliconflow"
        THEN JsonParse(CleanJson(retResult.text))
        ELSE JsonParse(TextOr(retResult, <<NoQuestionsDoc>>))

\* C11: question generation that returns never returns an empty list, and
\* returns the default three questions whenever the parsed response has no
\* questions array or an empty one.
C11_DefaultQuestionsFallback ==
    (op = "questions" /\ epc = "returned") =>
        /\ epResult.t = "array"
        /\ epResult.items # <<>>
        /\ Field(ReturnedPayload.v, "questions") \in {Undefined, JArr(<<>>)}
               => epResult = DefaultQuestions

\* The four values of QuadrantType.
Quadrants == {"Do", "Plan", "Delegate", "Eliminate"}

\* C12: a classification result that is returned carries one of the four
\* quadrant values; a response with any other quadrantName, or none, is not
\* returned as a result.
C12_QuadrantIsEnum ==
    (op = "analyze" /\ epc = "returned") =>
        Field(epResult, "quadrant") \in {JStr(q) : q \in Quadrants}

\* The fields a classification response must carry.
RequiredAnalysisFields ==
    {"isImportant", "isUrgent", "quadrantName", "reasoning", "steps", "advice"}

\* C13: a classification result is returned only when the parsed response
\* carries every required field; a response lacking one ends in an error.
C13_MissingFieldIsFailure ==
    (op = "analyze" /\ epc = "returned") =>
        \A f \in RequiredAnalysisFields : Field(ReturnedPayload.v, f) # Undefined

\* ================================= claims on the executor's error categories
\* The error retry() ended on.
TerminalError == history[Len(history)].e

ThrewOn(S) ==
    /\ rpc = "thrown"
    /\ history # <<>>
    /\ Failed(Len(history))
    /\ CarriedStatus(TerminalError) \in S

HasPermissionMarker(e) ==
    \E k \in DOMAIN InspectedText(e) : InspectedText(e)[k] = "PERMISSION_DENIED"

MessageHasMarker(e) ==
    \E k \in DOMAIN e.message :
        e.message[k] \in {"RESOURCE_EXHAUSTED", "429", "PERMISSION_DENIED"}

\* C14: a terminal error with status 400 is thrown by retry() as the
\* malformed-input (bad request) category, not as the raw error.
C14_BadRequestCategory ==
    ThrewOn({400}) =>
        /\ retThrown.kind = "classified"
        /\ retThrown.category = "bad_request"

\* C15: a terminal error with no 429 / 401 / 403 / 5xx status and no quota or
\* permission marker in its message is thrown by retry() as that same error.
C15_UnclassifiedRethrown ==
    (/\ ThrewOn((0..599) \ ({429, 401, 403} \cup ServerStatuses))
     /\ ~MessageHasMarker(TerminalError))
        => retThrown = TerminalError

\* A network error without status, retried to the ceiling and rethrown as is.
C15_Witness ==
    /\ rpc = "thrown"
    /\ retries = 3
    /\ Len(history) = 3
    /\ \A k \in 1..3 : history[k] = [ok |-> FALSE, e |-> Err(0, 0, 0, PlainMessage),
                                      v |-> NoValue]
    /\ retThrown = Err(0, 0, 0, PlainMessage)

\* C16 as stated: every terminal error with status >= 500 is thrown as the
\* service-unavailable error.
C16_ServerErrorSurfaced ==
    ThrewOn(ServerStatuses) => retThrown = ServerError

\* C16, amended: a terminal error with status >= 500 is reached only after
\* `retries` attempts, and is thrown as the service-unavailable error unless
\* the inspected text carries a quota marker (then: the rate-limit error) or
\* a permission marker (then: the invalid-credentials error).
C16_ServerErrorUnlessMarker ==
    ThrewOn(ServerStatuses) =>
        /\ calls = retries
        /\ Len(history) = retries
        /\ retThrown = IF HasRateLimitMarker(TerminalError) THEN RateLimitedError
                       ELSE IF HasPermissionMarker(TerminalError) THEN UnauthorizedError
                       ELSE ServerError

C16_Witness ==
    /\ rpc = "thrown"
    /\ retries = 3
    /\ Len(history) = 3
    /\ \A k \in 1..3 : FailedWith(k, {503})
    /\ ~HasRateLimitMarker(TerminalError)
    /\ ~HasPermissionMarker(TerminalError)
    /\ retThrown = ServerError

\* ============================================== display of bilingual content
\* The values of state.language: toggleLanguage switches between them.
Languages == {"zh", "en"}

CnTexts == {"cn1", "cn2", "cn3"}
EnTexts == {"en1", "en2", "en3"}

\* BilingualText objects, complete or with a key absent or empty.
BilingualObjects ==
    {JObj([cn |-> JStr(c), en |-> JStr(e)]) : c \in CnTexts \cup {""}, e \in EnTexts \cup {""}}
    \cup {JObj([cn |-> JStr(c)]) : c \in CnTexts \cup {""}}
    \cup {JObj([en |-> JStr(e)]) : e \in EnTexts \cup {""}}
    \cup {JObj(<<>>)}

\* content: BilingualText | string | null | undefined
Contents ==
    {JNull, Undefined, JStr(""), JStr("legacy text"), JStr("cn1")} \cup BilingualObjects

\* return content[state.language] || content['cn'] || ""
GetLocalizedContent_NoFallback(content, lang) ==
    IF ~Truthy(content) THEN ""
    ELSE IF content.t = "string" THEN content.s
    ELSE IF Truthy(Field(content, lang)) THEN Field(content, lang).s
    ELSE ""

GetLocalizedContent(content, lang) ==
    IF ~Truthy(content) THEN ""
    ELSE IF content.t = "string" THEN content.s
    ELSE IF Truthy(Field(content, lang)) THEN Field(content, lang).s
    ELSE IF Truthy(Field(content, "cn")) THEN Field(content, "cn").s
    ELSE ""

NotRendered == NoCall

\* A render hands the content to getLocalizedContent.
RenderContent ==
    /\ displayed = NotRendered
    /\ displayed' = [kind |-> "text", s |-> GetLocalizedContent(displayContent, language)]
    /\ UNCHANGED <<language, displayContent>>
    /\ UNCHANGED <<view, wizardStep, inputName, currentTaskInput, currentQuestions,
                   currentAnswers, currentAnalysis, stateTasks, taskVars, inflight, wizardCalls>>
    /\ UNCHANGED <<concVars, retryVars, orchVars, batchVars>>

\* toggleLanguage: the next render resolves the content again.
ToggleLanguage ==
    /\ language' = IF language = "zh" THEN "en" ELSE "zh"
    /\ displayed' = NotRendered
    /\ UNCHANGED displayContent
    /\ UNCHANGED <<view, wizardStep, inputName, currentTaskInput, currentQuestions,
                   currentAnswers, currentAnalysis, stateTasks, taskVars, inflight, wizardCalls>>
    /\ UNCHANGED <<concVars, retryVars, orchVars, batchVars>>

\* Any content under any saved language.
InitLocalize ==
    /\ retries = DefaultRetries
    /\ baseDelay = DefaultBaseDelay
    /\ settings = NoSettings
    /\ op = "none"
    /\ InitCall
    /\ InitBatch
    /\ view = "dashboard"
    /\ wizardStep = "input"
    /\ inputName = 0
    /\ currentTaskInput = 0
    /\ currentQuestions = <<>>
    /\ currentAnswers = <<>>
    /\ currentAnalysis = NoCall
    /\ InitTaskList({FALSE})
    /\ inflight = {}
    /\ wizardCalls = 0
    /\ language \in Languages
    /\ displayContent \in Contents
    /\ displayed = NotRendered

NextLocalize == RenderContent \/ ToggleLanguage

SpecLocalize == InitLocalize /\ [][NextLocalize]_vars

\* ------------------------------------------------- claim on the display
HasText(content, key) ==
    /\ content.t = "object"
    /\ key \in DOMAIN content.fields
    /\ content.fields[key].s # ""

\* C19: a rendered bare string is shown unchanged under either language; an
\* object is shown as its `en` text when the language is 'en' and that text
\* is not empty, as its `cn` text when the language's key is absent from the
\* object or its text is empty (the empty string when there is no `cn` text
\* either); null and undefined are shown as the empty string.
C19_LocalizedContent ==
    displayed # NotRendered =>
        LET c == displayContent
        IN  /\ c.t = "string" => displayed.s = c.s
            /\ c \in {JNull, Undefined} => displayed.s = ""
            /\ (language = "en" /\ HasText(c, "en")) => displayed.s = c.fields.en.s
            /\ (c.t = "object" /\ ~HasText(c, language)) =>
                   displayed.s = IF HasText(c, "cn") THEN c.fields.cn.s ELSE ""

\* Under 'zh', which is no key of the object, the cn text is shown.
C19_Witness ==
    /\ language = "zh"
    /\ displayContent = JObj([cn |-> JStr("cn2"), en |-> JStr("en1")])
    /\ displayed = [kind |-> "text", s |-> "cn2"]

\* ======================================================= single-task wizard
\* The names typed into the name field: 0 is a blank name.
TaskNames == 1..MaxTaskNames

\* String(i): the decimal numeral of an array index.
QuestionId_OneBased(idx) == ToString(idx + 1)

QuestionId(idx) == ToString(idx)

\* [idx] as a computed property key, answers[index] as a property read: the
\* number is converted to its decimal numeral.
PropertyKey(idx) == ToString(idx)

\* The question lists generateAssessmentQuestions may resolve with for a
\* task: each text records its task and its place in the provider's list.
ProviderQuestions(t) ==
    {[k \in 1..n |-> [task |-> t, pos |-> k]] : n \in {0, MaxQuestions - 1, MaxQuestions}}

\* questions.map((q, i) => ({ id: String(i), text: q }))
WithIds(questions) ==
    [k \in 1..Len(questions) |-> [id |-> QuestionId(k - 1), text |-> questions[k]]]

\* state.currentQuestions.map(q => q.text)
TextsOf(questions) == [k \in 1..Len(questions) |-> questions[k].text]

\* questions.map((q, index) => ... answers[index] ? yes : no)
QaPairs(questions, answers) ==
    [k \in 1..Len(questions) |->
        [q |-> questions[k],
         a |-> IF PropertyKey(k - 1) \in DOMAIN answers
                   THEN answers[PropertyKey(k - 1)]
                   ELSE FALSE]]

\* The results analyzeTaskWithGemini resolves with for a task when the
\* provider's isImportant and isUrgent agree with its quadrantName: the
\* reasoning, steps and advice record the task they are about.
ClassificationResults(t) ==
    {[kind |-> "analysis", task |-> t, quadrant |-> q,
      isImportant |-> IsImportantOf(q), isUrgent |-> IsUrgentOf(q),
      reasoning |-> <<"reasoning", t>>, steps |-> <<"steps", t>>,
      advice |-> <<"advice", t>>] : q \in QuadrantType}

\* { id, name, estimatedTime, createdAt, ...state.currentAnalysis }
TaskOfAnalysis(input, analysis, id) ==
    [id |-> id, name |-> input, estimatedTime |-> "inputTime",
     quadrant |-> analysis.quadrant, isImportant |-> analysis.isImportant,
     isUrgent |-> analysis.isUrgent, reasoning |-> analysis.reasoning,
     steps |-> analysis.steps, advice |-> analysis.advice, isCompleted |-> FALSE]

\* wizardStep after analyzeTaskWithGemini rejected.
StepAfterFailedAnalysis == "assessment"

\* The variables of the display and of the other layers, which the wizard
\* leaves alone.
wizardFrame == <<language, displayContent, displayed, concVars, retryVars, orchVars,
                 batchRawInput, batchWizardStep, batchInputs, batchQuestions,
                 batchAnswers, batchResults, pendingGen, pendingAnalyze,
                 genBatchCalls, analyzeBatchCalls>>

\* navigateTo('dashboard'): the button at the top of the wizard.
NavigateToDashboard ==
    /\ view = "wizard"
    /\ view' = "dashboard"
    /\ error' = "null"
    /\ isEditingTask' = FALSE
    /\ UNCHANGED <<wizardStep, inputName, currentTaskInput, currentQuestions,
                   currentAnswers, currentAnalysis, stateTasks, inflight, wizardCalls,
                   isLoading>>
    /\ UNCHANGED <<selectedTask, editForm, pendingDeletes, pendingSaves, rollbacks,
                   isSupabaseConfigured, tasksCreated, taskOps>>
    /\ UNCHANGED wizardFrame

\* startNewTask: the button of the dashboard.  The calls still in flight are
\* the ones the user abandons by it.
StartNewTask ==
    /\ view = "dashboard"
    /\ view' = "wizard"
    /\ wizardStep' = "input"
    /\ currentTaskInput' = 0
    /\ currentAnalysis' = NoCall
    /\ currentAnswers' = <<>>
    /\ currentQuestions' = <<>>
    /\ error' = "null"
    /\ inputName' = 0
    /\ inflight' = {[c EXCEPT !.abandoned = TRUE] : c \in inflight}
    /\ selectedTask' = NoTask
    /\ isEditingTask' = FALSE
    /\ UNCHANGED <<stateTasks, wizardCalls, isLoading>>
    /\ UNCHANGED <<editForm, pendingDeletes, pendingSaves, rollbacks,
                   isSupabaseConfigured, tasksCreated, taskOps>>
    /\ UNCHANGED wizardFrame

\* The name field of the input step (onChange => setInputName).
SetInputName ==
    /\ view = "wizard"
    /\ wizardStep = "input"
    /\ \E n \in {0} \cup TaskNames : inputName' = n
    /\ inputName' # inputName
    /\ UNCHANGED <<view, wizardStep, currentTaskInput, currentQuestions, currentAnswers,
                   currentAnalysis, stateTasks, taskVars, inflight, wizardCalls, isLoading, error>>
    /\ UNCHANGED wizardFrame

\* handleTaskInputSubmit up to its await.  The input step renders two ways to
\* call it: the button, disabled while isLoading, and the Enter key of the name
\* field (onKeyDown), which is not; the handler itself does not test isLoading.
HandleTaskInputSubmit ==
    /\ view = "wizard"
    /\ wizardStep = "input"
    /\ wizardCalls < MaxWizardCalls
    /\ IF inputName = 0 THEN
           /\ error' = "EmptyName"
           /\ UNCHANGED <<isLoading, inflight, wizardCalls>>
       ELSE
           /\ isLoading' = TRUE
           /\ error' = "null"
           /\ inflight' = inflight \cup
                  {[kind |-> "questions", n |-> wizardCalls + 1, task |-> inputName,
                    questions |-> <<>>, answers |-> <<>>, qa |-> <<>>,
                    abandoned |-> FALSE]}
           /\ wizardCalls' = wizardCalls + 1
    /\ UNCHANGED <<view, wizardStep, inputName, currentTaskInput, currentQuestions,
                   currentAnswers, currentAnalysis, stateTasks, taskVars>>
    /\ UNCHANGED wizardFrame

\* handleTaskInputSubmit resumes: generateAssessmentQuestions resolved.
QuestionsResolve ==
    /\ \E c \in inflight :
         /\ c.kind = "questions"
         /\ inflight' = inflight \ {c}
         /\ currentTaskInput' = c.task
         /\ \E questions \in ProviderQuestions(c.task) :
                currentQuestions' = WithIds(questions)
    /\ wizardStep' = "assessment"
    /\ currentAnswers' = <<>>
    /\ isLoading' = FALSE
    /\ UNCHANGED <<view, inputName, currentAnalysis, stateTasks, taskVars, wizardCalls, error>>
    /\ UNCHANGED wizardFrame

\* handleTaskInputSubmit resumes: generateAssessmentQuestions rejected.
QuestionsReject ==
    /\ \E c \in inflight :
         /\ c.kind = "questions"
         /\ inflight' = inflight \ {c}
    /\ error' = "QuestionsFailed"
    /\ isLoading' = FALSE
    /\ UNCHANGED <<view, wizardStep, inputName, currentTaskInput, currentQuestions,
                   currentAnswers, currentAnalysis, stateTasks, taskVars, wizardCalls>>
    /\ UNCHANGED wizardFrame

\* The Yes / No button of question idx in the assessment step.
AnswerQuestion ==
    /\ view = "wizard"
    /\ wizardStep = "assessment"
    /\ \E idx \in 0..(Len(currentQuestions) - 1), b \in BOOLEAN :
         /\ currentAnswers' = (PropertyKey(idx) :> b) @@ currentAnswers
         /\ currentAnswers' # currentAnswers
    /\ UNCHANGED <<view, wizardStep, inputName, currentTaskInput, currentQuestions,
                   currentAnalysis, stateTasks, taskVars, inflight, wizardCalls, isLoading, error>>
    /\ UNCHANGED wizardFrame

\* handleAnswerSubmit up to its await; the button is rendered in the
\* assessment step and disabled while fewer answers than questions are recorded.
HandleAnswerSubmit ==
    /\ view = "wizard"
    /\ wizardStep = "assessment"
    /\ ~(Cardinality(DOMAIN currentAnswers) < Len(currentQuestions))
    /\ wizardCalls < MaxWizardCalls
    /\ currentTaskInput # 0
    /\ wizardStep' = "analyzing"
    /\ inflight' = inflight \cup
           {[kind |-> "analysis", n |-> wizardCalls + 1, task |-> currentTaskInput,
             questions |-> TextsOf(currentQuestions), answers |-> currentAnswers,
             qa |-> QaPairs(TextsOf(currentQuestions), currentAnswers),
             abandoned |-> FALSE]}
    /\ wizardCalls' = wizardCalls + 1
    /\ UNCHANGED <<view, inputName, currentTaskInput, currentQuestions, currentAnswers,
                   currentAnalysis, stateTasks, taskVars, isLoading, error>>
    /\ UNCHANGED wizardFrame

\* handleAnswerSubmit resumes: analyzeTaskWithGemini resolved.
AnalysisResolve ==
    /\ \E c \in inflight :
         /\ c.kind = "analysis"
         /\ inflight' = inflight \ {c}
         /\ \E result \in ClassificationResults(c.task) : currentAnalysis' = result
    /\ wizardStep' = "result"
    /\ UNCHANGED <<view, inputName, currentTaskInput, currentQuestions, currentAnswers,
                   stateTasks, taskVars, wizardCalls, isLoading, error>>
    /\ UNCHANGED wizardFrame

\* handleAnswerSubmit resumes: analyzeTaskWithGemini rejected.
AnalysisReject ==
    /\ \E c \in inflight :
         /\ c.kind = "analysis"
         /\ inflight' = inflight \ {c}
    /\ error' = "AnalysisFailed"
    /\ wizardStep' = StepAfterFailedAnalysis
    /\ UNCHANGED <<view, inputName, currentTaskInput, currentQuestions, currentAnswers,
                   currentAnalysis, stateTasks, taskVars, wizardCalls, isLoading>>
    /\ UNCHANGED wizardFrame

\* The re-assess button of the result step.
Reassess ==
    /\ view = "wizard"
    /\ wizardStep = "result"
    /\ currentAnalysis # NoCall
    /\ wizardStep' = "assessment"
    /\ UNCHANGED <<view, inputName, currentTaskInput, currentQuestions, currentAnswers,
                   currentAnalysis, stateTasks, taskVars, inflight, wizardCalls, isLoading, error>>
    /\ UNCHANGED wizardFrame

\* handleSaveTask up to its await (with a configured database) or to its end
\* (without one): the button is rendered in the result step and disabled
\* while isLoading.
HandleSaveTask ==
    /\ view = "wizard"
    /\ wizardStep = "result"
    /\ currentAnalysis # NoCall
    /\ ~isLoading
    /\ currentTaskInput # 0
    /\ stateTasks' = Append(stateTasks,
           TaskOfAnalysis(currentTaskInput, currentAnalysis, tasksCreated + 1))
    /\ tasksCreated' = tasksCreated + 1
    /\ view' = "dashboard"
    /\ wizardStep' = "input"
    /\ currentTaskInput' = 0
    /\ IF isSupabaseConfigured
           THEN /\ isLoading' = TRUE
                /\ pendingSaves' = [pendingSaves EXCEPT !.single = @ + 1]
           ELSE UNCHANGED <<isLoading, pendingSaves>>
    /\ UNCHANGED <<inputName, currentQuestions, currentAnswers, currentAnalysis,
                   inflight, wizardCalls, error>>
    /\ UNCHANGED <<selectedTask, isEditingTask, editForm, pendingDeletes, rollbacks,
                   isSupabaseConfigured, taskOps>>
    /\ UNCHANGED wizardFrame

\* handleSaveTask resumes: supabaseService.addTask settled.
SaveTaskSettled ==
    /\ pendingSaves.single > 0
    /\ pendingSaves' = [pendingSaves EXCEPT !.single = @ - 1]
    /\ \E ok \in BOOLEAN : error' = IF ok THEN error ELSE "SaveToCloudFailed"
    /\ isLoading' = FALSE
    /\ UNCHANGED <<view, wizardStep, inputName, currentTaskInput, currentQuestions,
                   currentAnswers, currentAnalysis, stateTasks, inflight, wizardCalls>>
    /\ UNCHANGED <<selectedTask, isEditingTask, editForm, pendingDeletes, rollbacks,
                   isSupabaseConfigured, tasksCreated, taskOps>>
    /\ UNCHANGED wizardFrame

NextWizard ==
    \/ NavigateToDashboard
    \/ StartNewTask
    \/ SetInputName
    \/ HandleTaskInputSubmit
    \/ QuestionsResolve
    \/ QuestionsReject
    \/ AnswerQuestion
    \/ HandleAnswerSubmit
    \/ AnalysisResolve
    \/ AnalysisReject
    \/ Reassess
    \/ HandleSaveTask

\* A session in the single-task wizard, from the dashboard.
InitWizard ==
    /\ retries = DefaultRetries
    /\ baseDelay = DefaultBaseDelay
    /\ settings \in {st \in SettingsSet : st.aiProvider = "gemini" /\ st.geminiApiKey
                                          /\ ~st.envApiKey /\ ~st.siliconFlowApiKey}
    /\ op = "none"
    /\ InitCall
    /\ InitBatch
    /\ InitWizardAt("dashboard")

SpecWizard == InitWizard /\ [][NextWizard]_vars

\* A session in one of the two wizards: the batch wizard as startBatchTask
\* shows it, followed up to its review step, or the single-task wizard from
\* the dashboard.
InitWizards ==
    \/ InitBatchWizard
    \/ InitWizard

BatchSession == view = "batch-wizard" /\ NextBatch

NextWizards ==
    \/ BatchSession
    \/ NextWizard

SpecWizards == InitWizards /\ [][NextWizards]_vars

\* ================================================================ task list
\* The variables of the wizards and of the other layers, which the handlers
\* of the task list leave alone.
taskFrame == <<concVars, retryVars, orchVars, batchVars, wizardStep, inputName, currentTaskInput,
               currentQuestions, currentAnswers, currentAnalysis, inflight,
               wizardCalls, language, displayContent, displayed>>

\* prev.tasks.map(t => t.id === updatedTask.id ? updatedTask : t)
ReplaceById(tasks, updatedTask) ==
    [k \in DOMAIN tasks |-> IF tasks[k].id = updatedTask.id THEN updatedTask ELSE tasks[k]]

\* prev.tasks.filter(t => t.id !== taskId)
WithoutId(tasks, taskId) == SelectSeq(tasks, LAMBDA t : t.id # taskId)

\* { ...selectedTask, name: editForm.name, estimatedTime: editForm.estimatedTime,
\*   quadrant: editForm.quadrant }
EditedTask(task, form) ==
    [task EXCEPT !.name = form.name, !.estimatedTime = form.estimatedTime,
                 !.quadrant = form.quadrant]

\* selectTask: a task of the dashboard's matrix is clicked.
SelectTask ==
    /\ view = "dashboard"
    /\ \E k \in DOMAIN stateTasks : selectedTask' = stateTasks[k]
    /\ isEditingTask' = FALSE
    /\ <<selectedTask, isEditingTask>>' # <<selectedTask, isEditingTask>>
    /\ UNCHANGED <<view, stateTasks, editForm, pendingDeletes, pendingSaves, rollbacks,
                   isSupabaseConfigured, tasksCreated, taskOps>>
    /\ UNCHANGED taskFrame

\* startEditing: the edit button of the detail panel, shown while not editing.
StartEditing ==
    /\ selectedTask # NoTask
    /\ ~isEditingTask
    /\ taskOps < MaxTaskOps
    /\ editForm' = [name |-> selectedTask.name,
                    estimatedTime |-> selectedTask.estimatedTime,
                    quadrant |-> selectedTask.quadrant]
    /\ isEditingTask' = TRUE
    /\ UNCHANGED <<view, stateTasks, selectedTask, pendingDeletes, pendingSaves,
                   rollbacks, isSupabaseConfigured, tasksCreated, taskOps>>
    /\ UNCHANGED taskFrame

\* A quadrant button of the edit form:
\* setEditForm(prev => prev ? {...prev, quadrant: q} : null).
SetEditQuadrant ==
    /\ selectedTask # NoTask
    /\ isEditingTask
    /\ editForm # NoForm
    /\ \E q \in QuadrantType :
         /\ q # editForm.quadrant
         /\ editForm' = [editForm EXCEPT !.quadrant = q]
    /\ UNCHANGED <<view, stateTasks, selectedTask, isEditingTask, pendingDeletes,
                   pendingSaves, rollbacks, isSupabaseConfigured, tasksCreated, taskOps>>
    /\ UNCHANGED taskFrame

\* saveTaskChanges up to its await (with a configured database) or to its end
\* (without one): the save button of the detail panel, shown while editing.
SaveTaskChanges ==
    /\ isEditingTask
    /\ selectedTask # NoTask
    /\ editForm # NoForm
    /\ taskOps < MaxTaskOps
    /\ LET updatedTask == EditedTask(selectedTask, editForm)
       IN  /\ stateTasks' = ReplaceById(stateTasks, updatedTask)
           /\ selectedTask' = updatedTask
    /\ isEditingTask' = FALSE
    /\ taskOps' = taskOps + 1
    /\ pendingSaves' = IF isSupabaseConfigured
                           THEN [pendingSaves EXCEPT !.edit = @ + 1]
                           ELSE pendingSaves
    /\ UNCHANGED <<view, editForm, pendingDeletes, rollbacks, isSupabaseConfigured,
                   tasksCreated>>
    /\ UNCHANGED taskFrame

\* saveTaskChanges resumes: supabaseService.updateTask settled.
TaskUpdateSettled ==
    /\ pendingSaves.edit > 0
    /\ pendingSaves' = [pendingSaves EXCEPT !.edit = @ - 1]
    /\ \E ok \in BOOLEAN : error' = IF ok THEN error ELSE "UpdateFailed"
    /\ UNCHANGED <<batchRawInput, isLoading, batchWizardStep, batchInputs,
                   batchQuestions, batchAnswers, batchResults, pendingGen,
                   pendingAnalyze, genBatchCalls, analyzeBatchCalls>>
    /\ UNCHANGED <<view, stateTasks, selectedTask, isEditingTask, editForm,
                   pendingDeletes, rollbacks, isSupabaseConfigured, tasksCreated, taskOps>>
    /\ UNCHANGED <<concVars, retryVars, orchVars, wizardStep, inputName, currentTaskInput,
                   currentQuestions, currentAnswers, currentAnalysis, inflight,
                   wizardCalls, language, displayContent, displayed>>

\* deleteTask(task.id) up to its await (with a configured database) or to its
\* end (without one): the delete button of the detail panel, shown while not
\* editing.  previousTasks is state.tasks as the handler found it.
DeleteTask ==
    /\ selectedTask # NoTask
    /\ ~isEditingTask
    /\ taskOps < MaxTaskOps
    /\ stateTasks' = WithoutId(stateTasks, selectedTask.id)
    /\ selectedTask' = NoTask
    /\ isEditingTask' = FALSE
    /\ taskOps' = taskOps + 1
    /\ pendingDeletes' = IF isSupabaseConfigured
                             THEN pendingDeletes \cup
                                      {[taskId |-> selectedTask.id,
                                        previousTasks |-> stateTasks]}
                             ELSE pendingDeletes
    /\ UNCHANGED <<view, editForm, pendingSaves, rollbacks, isSupabaseConfigured,
                   tasksCreated>>
    /\ UNCHANGED taskFrame

\* deleteTask resumes: supabaseService.deleteTask resolved.
DeleteResolve ==
    /\ \E c \in pendingDeletes : pendingDeletes' = pendingDeletes \ {c}
    /\ UNCHANGED <<view, stateTasks, selectedTask, isEditingTask, editForm,
                   pendingSaves, rollbacks, isSupabaseConfigured, tasksCreated, taskOps>>
    /\ UNCHANGED taskFrame

\* deleteTask resumes: supabaseService.deleteTask rejected;
\* setState(prev => ({ ...prev, tasks: previousTasks, error })).
DeleteReject ==
    /\ \E c \in pendingDeletes :
         /\ pendingDeletes' = pendingDeletes \ {c}
         /\ stateTasks' = c.previousTasks
    /\ error' = "DeleteFailedRestored"
    /\ rollbacks' = rollbacks + 1
    /\ UNCHANGED <<batchRawInput, isLoading, batchWizardStep, batchInputs,
                   batchQuestions, batchAnswers, batchResults, pendingGen,
                   pendingAnalyze, genBatchCalls, analyzeBatchCalls>>
    /\ UNCHANGED <<view, selectedTask, isEditingTask, editForm, pendingSaves,
                   isSupabaseConfigured, tasksCreated, taskOps>>
    /\ UNCHANGED <<concVars, retryVars, orchVars, wizardStep, inputName, currentTaskInput,
                   currentQuestions, currentAnswers, currentAnalysis, inflight,
                   wizardCalls, language, displayContent, displayed>>

\* toggleTaskCompletion(task) up to its await (with a configured database) or
\* to its end (without one): the completion button of the detail panel, shown
\* while not editing; task is the selected task.
ToggleTaskCompletion ==
    /\ selectedTask # NoTask
    /\ ~isEditingTask
    /\ taskOps < MaxTaskOps
    /\ LET updatedTask == [selectedTask EXCEPT !.isCompleted = ~@]
       IN  /\ stateTasks' = ReplaceById(stateTasks, updatedTask)
           /\ selectedTask' = updatedTask
    /\ taskOps' = taskOps + 1
    /\ pendingSaves' = IF isSupabaseConfigured
                           THEN [pendingSaves EXCEPT !.toggle = @ + 1]
                           ELSE pendingSaves
    /\ UNCHANGED <<view, isEditingTask, editForm, pendingDeletes, rollbacks,
                   isSupabaseConfigured, tasksCreated>>
    /\ UNCHANGED taskFrame

\* toggleTaskCompletion resumes: supabaseService.updateTask settled.
ToggleSettled ==
    /\ pendingSaves.toggle > 0
    /\ pendingSaves' = [pendingSaves EXCEPT !.toggle = @ - 1]
    /\ \E ok \in BOOLEAN : error' = IF ok THEN error ELSE "StatusSyncFailed"
    /\ UNCHANGED <<batchRawInput, isLoading, batchWizardStep, batchInputs,
                   batchQuestions, batchAnswers, batchResults, pendingGen,
                   pendingAnalyze, genBatchCalls, analyzeBatchCalls>>
    /\ UNCHANGED <<view, stateTasks, selectedTask, isEditingTask, editForm,
                   pendingDeletes, rollbacks, isSupabaseConfigured, tasksCreated, taskOps>>
    /\ UNCHANGED <<concVars, retryVars, orchVars, wizardStep, inputName, currentTaskInput,
                   currentQuestions, currentAnswers, currentAnalysis, inflight,
                   wizardCalls, language, displayContent, displayed>>

\* A session of the App with or without a configured database: it starts in
\* the batch wizard, as startBatchTask shows it, or on the dashboard.
InitTasks ==
    /\ retries = DefaultRetries
    /\ baseDelay = DefaultBaseDelay
    /\ settings \in {st \in SettingsSet : st.aiProvider = "gemini" /\ st.geminiApiKey
                                          /\ ~st.envApiKey /\ ~st.siliconFlowApiKey}
    /\ op = "none"
    /\ InitCall
    /\ InitBatch
    /\ \/ InitWizardState("batch-wizard")
       \/ InitWizardState("dashboard")
    /\ InitTaskList(BOOLEAN)

\* The single-task wizard, in the sessions that made no batch.
WizardSession == genBatchCalls = 0 /\ NextWizard

\* Saving from either wizard, adjusting in the batch review, editing tasks.
NextTasks ==
    \/ NextBatchReviewed
    \/ BatchSaveSettled
    \/ WizardSession
    \/ SaveTaskSettled
    \/ SelectTask
    \/ StartEditing
    \/ SetEditQuadrant
    \/ SaveTaskChanges
    \/ TaskUpdateSettled

SpecTasks == InitTasks /\ [][NextTasks]_vars

\* A task as handleSaveTask saved it in an earlier session.
SavedTask(id, q) ==
    TaskOfAnalysis(id, CHOOSE r \in ClassificationResults(id) : r.quadrant = q, id)

\* The task lists found in localStorage.
SavedLists ==
    {<<>>, <<SavedTask(1, "Do")>>, <<SavedTask(1, "Do"), SavedTask(2, "Plan")>>}

\* A session of the App with a configured database and saved tasks, on the
\* dashboard.
InitDashboard ==
    /\ retries = DefaultRetries
    /\ baseDelay = DefaultBaseDelay
    /\ settings \in {st \in SettingsSet : st.aiProvider = "gemini" /\ st.geminiApiKey
                                          /\ ~st.envApiKey /\ ~st.siliconFlowApiKey}
    /\ op = "none"
    /\ InitCall
    /\ InitBatch
    /\ InitWizardState("dashboard")
    /\ \E saved \in SavedLists : InitTaskListWith(saved, {TRUE})

\* The handlers of the task list.
NextDashboard ==
    \/ SelectTask
    \/ StartEditing
    \/ SetEditQuadrant
    \/ SaveTaskChanges
    \/ TaskUpdateSettled
    \/ DeleteTask
    \/ DeleteResolve
    \/ DeleteReject
    \/ ToggleTaskCompletion
    \/ ToggleSettled

SpecDashboard == InitDashboard /\ [][NextDashboard]_vars

\* ============================================== several retry() calls at once
\* The outcomes of the operations of calls that run at once.
SomeErrors ==
    {Err(503, 0, 0, PlainMessage), Err(429, 0, 0, NoMessage), Err(400, 0, 0, PlainMessage)}

SomeValues == {[kind |-> "value", id |-> "v1"]}

\* `i` and `lastError` are locals of one invocation of retry(): every call
\* reads its own.
LoopCounter_Shared(c) == concurrent[1].i

LoopCounter(c) == concurrent[c].i

LastErrorOf(c) == concurrent[c].lastError

\* Some other call is suspended in its backoff sleep.
OtherSleeps(c) == \E d \in ConcurrentCalls \ {c} : concurrent[d].rpc = "sleeping"

\* What call c did while another call slept.
Beside(c, what) ==
    IF OtherSleeps(c) THEN concurrent[c].beside \cup {what} ELSE concurrent[c].beside

\* The for loop of call c reaches its test with i = idx, err being lastError.
ConcLoopStep(c, idx, err) ==
    IF idx < DefaultRetries
        THEN [concurrent[c] EXCEPT !.i = idx, !.rpc = "awaitFn", !.calls = @ + 1,
                                   !.lastError = err, !.beside = Beside(c, "attempt")]
        ELSE [concurrent[c] EXCEPT !.i = idx, !.rpc = "thrown", !.lastError = err,
                                   !.retThrown = Classify(err)]

\* An entry point calls retry(fn) for call c: the loop starts.
ConcStart(c) ==
    /\ concurrent[c].rpc = "idle"
    /\ concurrent' = [concurrent EXCEPT ![c] = ConcLoopStep(c, 0, NoError)]
    /\ UNCHANGED <<retryVars, orchVars, batchVars, wizardVars>>

\* `return await fn()` of call c when its fn resolved.
ConcResolve(c) ==
    /\ concurrent[c].rpc = "awaitFn"
    /\ \E v \in SomeValues :
         concurrent' = [concurrent EXCEPT
             ![c] = [@ EXCEPT !.history = Append(@, [ok |-> TRUE, e |-> NoError, v |-> v]),
                              !.retResult = v, !.rpc = "returned",
                              !.beside = Beside(c, "settled")]]
    /\ UNCHANGED <<retryVars, orchVars, batchVars, wizardVars>>

\* The catch block of call c when its fn rejected, up to the next await or
\* the throw.
ConcReject(c) ==
    /\ concurrent[c].rpc = "awaitFn"
    /\ \E e \in SomeErrors :
         LET failed == [concurrent[c] EXCEPT
                           !.history = Append(@, [ok |-> FALSE, e |-> e, v |-> NoValue]),
                           !.lastError = e, !.beside = Beside(c, "settled")]
         IN  concurrent' = [concurrent EXCEPT ![c] =
                 IF IsNonRetryable(StatusOf(e)) THEN
                     [failed EXCEPT !.rpc = "thrown", !.retThrown = Classify(e)]
                 ELSE IF ShouldSleep(LoopCounter(c), DefaultRetries) THEN
                     [failed EXCEPT !.rpc = "sleeping",
                                    !.sleeps = Append(@, BackoffDelay(DefaultBaseDelay,
                                                                      LoopCounter(c)))]
                 ELSE
                     [ConcLoopStep(c, LoopCounter(c) + 1, e) EXCEPT
                         !.history = failed.history, !.beside = failed.beside]]
    /\ UNCHANGED <<retryVars, orchVars, batchVars, wizardVars>>

\* The setTimeout of call c's backoff fires: i++ and the loop test.
ConcWake(c) ==
    /\ concurrent[c].rpc = "sleeping"
    /\ concurrent' = [concurrent EXCEPT
                          ![c] = ConcLoopStep(c, LoopCounter(c) + 1, LastErrorOf(c))]
    /\ UNCHANGED <<retryVars, orchVars, batchVars, wizardVars>>

\* Entry points called at once, each with the default parameters of retry().
InitConcurrent ==
    /\ retries = DefaultRetries
    /\ baseDelay = DefaultBaseDelay
    /\ settings = NoSettings
    /\ op = "none"
    /\ InitCall
    /\ InitBatch
    /\ InitWizardAt("dashboard")

NextConcurrent ==
    \E c \in ConcurrentCalls :
        \/ ConcStart(c)
        \/ ConcResolve(c)
        \/ ConcReject(c)
        \/ ConcWake(c)

SpecConcurrent == InitConcurrent /\ [][NextConcurrent]_vars

\* ================================================== claims on the wizards
\* C17: after a failed question generation (single or batch) the
\* wizard is in the input step with an error set; after a failed
\* classification it is in the assessment step with an error set and the
\* questions and answers unchanged.
C17_FailureLeavesWizardInPlace ==
    [][ /\ QuestionsReject =>
            /\ wizardStep' = "input"
            /\ error' # "null"
            /\ UNCHANGED <<currentQuestions, currentAnswers>>
        /\ BatchQuestionsReject =>
            /\ batchWizardStep' = "input"
            /\ error' # "null"
            /\ UNCHANGED <<batchQuestions, batchAnswers>>
        /\ AnalysisReject =>
            /\ wizardStep' = "assessment"
            /\ error' # "null"
            /\ UNCHANGED <<currentQuestions, currentAnswers>>
        /\ BatchAnalysisReject =>
            /\ batchWizardStep' = "assessment"
            /\ error' # "null"
            /\ UNCHANGED <<batchQuestions, batchAnswers>>
      ]_vars

\* The handler of the failed call itself: a failed question generation sets
\* an error and leaves the step, questions and answers of its wizard as they
\* are; a failed classification sets an error, puts its wizard in the
\* assessment step and leaves the questions and answers as they are.
FailingHandlerNeverAdvances ==
    [][ /\ QuestionsReject =>
            /\ wizardStep' = wizardStep
            /\ error' # "null"
            /\ UNCHANGED <<currentQuestions, currentAnswers>>
        /\ BatchQuestionsReject =>
            /\ batchWizardStep' = batchWizardStep
            /\ error' # "null"
            /\ UNCHANGED <<batchQuestions, batchAnswers>>
        /\ AnalysisReject =>
            /\ wizardStep' = "assessment"
            /\ error' # "null"
            /\ UNCHANGED <<currentQuestions, currentAnswers>>
        /\ BatchAnalysisReject =>
            /\ batchWizardStep' = "assessment"
            /\ error' # "null"
            /\ UNCHANGED <<batchQuestions, batchAnswers>>
      ]_vars

\* C18: the completion of a call the user abandoned changes none of
\* wizardStep, currentQuestions, currentAnswers, currentAnalysis, and no task
\* is saved with the analysis of another task.
C18_AbandonedCallIsInert ==
    [][ /\ \A c \in inflight :
              (c.abandoned /\ inflight' = inflight \ {c}) =>
                  UNCHANGED <<wizardStep, currentQuestions, currentAnswers,
                              currentAnalysis>>
        /\ \A k \in DOMAIN stateTasks' :
              stateTasks'[k].reasoning = <<"reasoning", stateTasks'[k].name>>
      ]_vars

\* The decimal numerals of the positions 0, 1, 2, ...
Numerals == <<"0", "1", "2", "3", "4", "5">>

\* C20: the questions shown have the ids "0", "1", "2", ... in the order the
\* provider returned them; every recorded answer is stored under the id of a
\* question shown; and the question-answer pairs of a classification call
\* pair question i with the answer stored under i.
C20_QuestionIdsAndAnswerKeys ==
    /\ \A k \in DOMAIN currentQuestions :
          /\ currentQuestions[k].id = Numerals[k]
          /\ currentQuestions[k].text.pos = k
    /\ DOMAIN currentAnswers \subseteq {Numerals[k] : k \in DOMAIN currentQuestions}
    /\ \A c \in inflight :
          c.kind = "analysis" =>
              /\ DOMAIN c.answers = {Numerals[k] : k \in DOMAIN c.questions}
              /\ \A k \in DOMAIN c.questions :
                    c.qa[k] = [q |-> c.questions[k], a |-> c.answers[Numerals[k]]]

\* Three questions answered no, yes, no, and the classification call in flight.
C20_Witness ==
    /\ wizardStep = "analyzing"
    /\ [k \in DOMAIN currentQuestions |-> currentQuestions[k].id] = <<"0", "1", "2">>
    /\ currentAnswers = ("0" :> FALSE) @@ ("1" :> TRUE) @@ ("2" :> FALSE)
    /\ \E c \in inflight :
          /\ c.kind = "analysis"
          /\ [k \in DOMAIN c.qa |-> c.qa[k].a] = <<FALSE, TRUE, FALSE>>

\* ================================== further claims on the retry executor
\* The adapter calls so far all ended in a non-2xx response with a status in S.
AllHttpErrorsIn(S) ==
    /\ adapterLog # <<>>
    /\ Len(history) = Len(adapterLog)
    /\ \A k \in DOMAIN adapterLog :
          adapterLog[k] = "http" /\ history[k].e.status \in S

Stops(k) ==
    \/ history[k].ok
    \/ CarriedStatus(history[k].e) \in ClientStatusesNot429

\* C25: retry() ends exactly at the first success, the first non-retryable
\* failure, or the `retries`-th invocation, whichever comes first; it never
\* invokes the operation after one of them; it returns the value of that
\* success, and throws otherwise.
C25_TerminatesAtFirstStop ==
    LET n == Len(history)
    IN  /\ calls <= retries
        /\ calls \in {n, n + 1}
        /\ \A k \in 1..(n - 1) : ~Stops(k)
        /\ (n > 0 /\ (Stops(n) \/ n = retries)) =>
               /\ calls = n
               /\ rpc = IF history[n].ok THEN "returned" ELSE "thrown"
               /\ history[n].ok => retResult = history[n].v
        /\ rpc \in {"returned", "thrown"} => (n > 0 /\ (Stops(n) \/ n = retries))
        /\ (n > 0 /\ ~Stops(n) /\ n < retries) => rpc \in {"sleeping", "awaitFn"}

\* A retryable failure, then a non-retryable one: two invocations of three.
C25_Witness ==
    /\ retries = 3
    /\ Len(history) = 2
    /\ FailedWith(1, {503})
    /\ FailedWith(2, {404})
    /\ rpc = "thrown"
    /\ calls = 2

MessageHasRateMarker(e) ==
    \E k \in DOMAIN e.message : e.message[k] \in {"RESOURCE_EXHAUSTED", "429"}

\* C26: the categories are tested in the order rate-limit, unauthorized,
\* server error: a terminal error whose message contains RESOURCE_EXHAUSTED
\* or 429 is thrown as the rate-limit error whatever its status; otherwise
\* 401 / 403 / PERMISSION_DENIED gives the unauthorized error; otherwise a
\* status >= 500 gives the server error; otherwise the error itself is thrown.
C26_ClassificationOrder ==
    (rpc = "thrown" /\ history # <<>>) =>
        LET e == TerminalError
        IN  /\ MessageHasRateMarker(e) => retThrown = RateLimitedError
            /\ retThrown =
                  IF CarriedStatus(e) = 429 \/ HasRateLimitMarker(e)
                      THEN RateLimitedError
                  ELSE IF CarriedStatus(e) \in {401, 403} \/ HasPermissionMarker(e)
                      THEN UnauthorizedError
                  ELSE IF CarriedStatus(e) >= 500 THEN ServerError
                  ELSE e

\* A 500 whose message carries a quota marker, surfaced as rate-limited.
C26_Witness ==
    /\ rpc = "thrown"
    /\ Len(history) = 3
    /\ TerminalError = Err(500, 0, 0, QuotaMessage)
    /\ retThrown = RateLimitedError

\* ====================================== further claims on the single wizard
QuestionCallsInFlight == {c \in inflight : c.kind = "questions"}

\* C27: at most one question-generation call of the single-task wizard is in
\* flight at any time, and once the wizard is in the assessment step no
\* question-generation response replaces the questions or clears the answers.
C27_OneQuestionCallInFlight ==
    [][ /\ Cardinality(QuestionCallsInFlight') <= 1
        /\ (wizardStep = "assessment" /\ QuestionsResolve) =>
               UNCHANGED <<currentQuestions, currentAnswers>>
      ]_vars

\* ============================================ claims on the batch review
\* A step of handleBatchReviewSave: the only step that leaves the review step
\* for the input step.
BatchSaveStep == batchWizardStep = "review" /\ batchWizardStep' = "input"

\* The tasks a step appended to state.tasks.
AppendedTasks == SubSeq(stateTasks', Len(stateTasks) + 1, Len(stateTasks'))

\* The results are one per batch input, keyed by the inputs' ids.
OneResultPerInput ==
    /\ Len(batchResults) = Len(batchInputs)
    /\ \A j \in DOMAIN batchInputs :
          Cardinality({k \in DOMAIN batchResults :
                           batchResults[k].taskId = batchInputs[j].id}) = 1

\* C21: when the results are one per batch input, keyed by the inputs' ids,
\* saving the batch appends exactly one task per input to the task list and
\* changes no earlier task: the k-th appended task has the name and the date
\* of the input whose id is the k-th result's taskId, that result's quadrant,
\* reasoning and advice, and no steps.
C21_BatchSaveOnePerInput ==
    [][ (BatchSaveStep /\ OneResultPerInput) =>
            /\ SubSeq(stateTasks', 1, Len(stateTasks)) = stateTasks
            /\ Len(AppendedTasks) = Len(batchInputs)
            /\ \A k \in DOMAIN batchResults :
                  \E j \in DOMAIN batchInputs :
                      /\ batchInputs[j].id = batchResults[k].taskId
                      /\ AppendedTasks[k].name = batchInputs[j].name
                      /\ AppendedTasks[k].estimatedTime = batchInputs[j].estimatedTime
                      /\ AppendedTasks[k].quadrant = batchResults[k].quadrant
                      /\ AppendedTasks[k].reasoning = batchResults[k].reasoning
                      /\ AppendedTasks[k].advice = batchResults[k].advice
                      /\ AppendedTasks[k].steps = <<>>
      ]_vars

\* A batch of the lines "task 2", "task 1" is saved from results that came in
\* the reverse order, one of them adjusted to Plan in the review step.
C21_Witness ==
    /\ view = "dashboard"
    /\ NonEmptyLines(batchRawInput) = <<2, 1>>
    /\ [k \in DOMAIN batchResults |-> batchResults[k].taskId] = <<2, 1>>
    /\ [k \in DOMAIN stateTasks |-> stateTasks[k].name] = <<1, 2>>
    /\ [k \in DOMAIN stateTasks |-> stateTasks[k].quadrant] = <<"Plan", "Do">>
    /\ [k \in DOMAIN stateTasks |-> stateTasks[k].steps] = <<<<>>, <<>>>>

\* C29: whatever results batch classification returned, saving the batch
\* appends exactly one task per batch input: as many tasks as inputs, each
\* input's name once, and no other name.
C29_OneTaskPerInputAlways ==
    [][ BatchSaveStep =>
            /\ Len(AppendedTasks) = Len(batchInputs)
            /\ \A j \in DOMAIN batchInputs :
                  Cardinality({k \in DOMAIN AppendedTasks :
                                   AppendedTasks[k].name = batchInputs[j].name}) = 1
            /\ \A k \in DOMAIN AppendedTasks :
                  \E j \in DOMAIN batchInputs :
                      AppendedTasks[k].name = batchInputs[j].name
      ]_vars

\* Every question the assessment step renders has an answer.
AllRenderedAnswered ==
    \A k \in DOMAIN batchInputs :
        \A qIdx \in 0..(Len(QuestionsShown(batchInputs[k].id)) - 1) :
            /\ batchInputs[k].id \in DOMAIN batchAnswers
            /\ qIdx \in DOMAIN batchAnswers[batchInputs[k].id]

\* C30: in the assessment step, when every rendered question has an answer,
\* handleBatchAnswerSubmit (the only handler that changes the error or the
\* step there) proceeds to the analyzing step.
C30_AnsweredBatchProceeds ==
    [][ ( /\ batchWizardStep = "assessment"
          /\ AllRenderedAnswered
          /\ <<error, batchWizardStep>>' # <<error, batchWizardStep>> ) =>
            batchWizardStep' = "analyzing"
      ]_vars

\* ============================================== claims on the task list
\* C22: every task of the task list has isImportant exactly when its
\* quadrant is Do or Plan, and isUrgent exactly when its quadrant is Do or
\* Delegate.
C22_FlagsFollowQuadrant ==
    \A k \in DOMAIN stateTasks :
        /\ stateTasks[k].isImportant = (stateTasks[k].quadrant \in {"Do", "Plan"})
        /\ stateTasks[k].isUrgent = (stateTasks[k].quadrant \in {"Do", "Delegate"})

\* C28: when deleteTask restores its snapshot, the deleted task is in the
\* task list again and every task that was in the list just before the
\* rollback is still there as it was.
C28_RollbackKeepsOtherChanges ==
    [][ rollbacks' # rollbacks =>
            /\ \E c \in pendingDeletes \ pendingDeletes' :
                  \E k \in DOMAIN stateTasks' : stateTasks'[k].id = c.taskId
            /\ \A k \in DOMAIN stateTasks :
                  \E j \in DOMAIN stateTasks' : stateTasks'[j] = stateTasks[k]
      ]_vars

\* ===================================== claims on calls running at once
\* The j-th attempt of a call failed and was followed by a backoff sleep.
Retried(h, j) ==
    /\ ~h[j].ok
    /\ ~(StatusOf(h[j].e) \in 400..499 /\ StatusOf(h[j].e) # 429)
    /\ j < DefaultRetries

\* The outcomes h end a call: a success, a 4xx other than 429, or the
\* failure of the last attempt.
Ends(h) ==
    /\ h # <<>>
    /\ \/ h[Len(h)].ok
       \/ StatusOf(h[Len(h)].e) \in 400..499 /\ StatusOf(h[Len(h)].e) # 429
       \/ Len(h) = DefaultRetries

\* C24: whatever the other calls do, the attempts, the sleeps and the result
\* or error of each call are those its own outcomes determine: one attempt
\* per outcome (and the one pending), one sleep of baseDelay * 2^(k-1) after
\* the k-th retried failure, and it has returned the value or thrown the
\* classified error exactly when its outcomes end it.
C24_CallsAreIndependent ==
    \A c \in ConcurrentCalls :
        LET r == concurrent[c]
            h == r.history
            n == Len(h)
        IN  /\ r.calls = n + (IF r.rpc = "awaitFn" THEN 1 ELSE 0)
            /\ r.sleeps = [k \in 1..Cardinality({j \in 1..n : Retried(h, j)}) |->
                               DefaultBaseDelay * 2^(k - 1)]
            /\ r.rpc \in {"returned", "thrown"} <=> Ends(h)
            /\ r.rpc = "returned" => h[n].ok /\ r.retResult = h[n].v
            /\ r.rpc = "thrown" => ~h[n].ok /\ r.retThrown = Classify(h[n].e)

\* Call 1 is in its first backoff sleep; call 2 made its attempts, slept
\* and returned while call 1 was sleeping.
C24_Witness ==
    /\ concurrent[1].rpc = "sleeping"
    /\ concurrent[1].sleeps = <<1000>>
    /\ concurrent[2].rpc = "returned"
    /\ concurrent[2].calls = 2
    /\ concurrent[2].sleeps = <<1000>>
    /\ concurrent[2].beside = {"attempt", "settled"}


====
